---- MODULE Spec2Model ----
\* Remote file I/O client of spyder/plugins/remoteclient/api/rest/plugin.py:
\* one SpyderRemoteFileIOAPI handle, the websocket(s) it obtains from
\* session.ws_connect, the server behind them, and the tasks calling the handle
\* (Spec, SpecConc); its response decoders and its payload codec evaluated on
\* bounded inputs (SpecDecode, SpecCodec); the metadata operations of
\* SpyderRemoteFileServicesAPI (SpecMeta); readinto() among the calls of two
\* tasks (SpecReadinto); an Open handle against a mock server that keeps one
\* file (SpecFile) and its line iteration (SpecIter); the file session beside
\* two callers of the metadata API, with timeouts (SpecShared).
\* PathManager dialog of spyder/plugins/pythonpath/widgets/pathmanager.py:
\* its list widget, headers and buttons (SpecPath).
EXTENDS Integers, Sequences, FiniteSets, TLC

VARIABLES
    tasks,       \* the caller tasks using the handle
    mode,        \* self.mode, a sequence of flag characters
    encoding,    \* self.encoding
    handle,      \* "live": held by the callers; "absent": open() will build it; "opening": inside open(); "discarded": open() raised
    pc,          \* per task: the await at which it is suspended
    cur,         \* per task: the call it is executing
    websocket,   \* self._websocket: None or the id of a websocket
    wsState,     \* per websocket id: "none" (not established), "open", "closed"
    nWs,         \* websockets established by ws_connect so far
    hsFrame,     \* the status frame the latest connect() received, NoFrame before it arrives
    wsStatus,    \* per websocket: status frames _check_connection consumed on it
    superClosed, \* super().close() has run
    closeDone,   \* close() has completed
    pending,     \* per websocket: requests sent, not yet answered by the server
    inbox,       \* per websocket: response frames not yet consumed
    nSent,       \* request frames sent
    nRecv,       \* response frames consumed
    result,      \* per task: outcome of its latest completed call
    nFail,       \* connect() calls that raised
    nConnectOk,  \* connect() calls that returned normally
    ncalls,      \* calls started
    probe,       \* one evaluation of the codec or of the response decoders: its inputs, then its results
    meta,        \* the metadata API (SpyderRemoteFileServicesAPI): per caller, the call in flight and its outcome
    file,        \* the remote file behind the session and the history of the calls made on the handle
    pm           \* the PathManager dialog

vars == <<tasks, mode, encoding, handle, pc, cur, websocket, wsState, nWs, hsFrame, wsStatus,
          superClosed, closeDone, pending, inbox, nSent, nRecv, result,
          nFail, nConnectOk, ncalls, probe, meta, file, pm>>

\* ---------------------------------------------------------------- bounds
MaxWs == 2
MaxOps == 2
MaxCalls == 4
MaxMetaCalls == 2
MaxLen == 3
\* MaxAdds, MaxRemoves and MaxMoves, the numbers of add_path, remove_path and
\* move_to calls, are defined with the PathManager

\* ------------------------------------------------------------- constants
LOCKED == 423
EXPECTATION_FAILED == 417
INTERNAL_SERVER_ERROR == 500
PROTOCOL_ERROR == 1002
OtherCloseCodes == {1000}

None == 0
WsIds == 1..MaxWs
AllTasks == {1, 2}
URL == "ws://host/spyder-services/fsspec/open/file"

\* ------------------------------------------------------------------ JSON
\* A JSON text on the wire is either not parseable or a list of members.
Malformed == [valid |-> FALSE, members |-> <<>>]
JsonText(members) == [valid |-> TRUE, members |-> members]

Keys(members) == {members[i][1] : i \in 1..Len(members)}
LastIndex(members, k) ==
    CHOOSE i \in 1..Len(members) :
        /\ members[i][1] = k
        /\ \A j \in 1..Len(members) : members[j][1] = k => j <= i

\* json.loads: a dict, or JSONDecodeError
json_loads(text) ==
    IF text.valid
    THEN [ok |-> TRUE,
          obj |-> [k \in Keys(text.members) |->
                     text.members[LastIndex(text.members, k)][2]]]
    ELSE [ok |-> FALSE, obj |-> <<>>]

\* dict.get(key, default)
Get(d, k, default) == IF k \in DOMAIN d THEN d[k] ELSE default

\* ------------------------------------------------------------ exceptions
NoExc == [kind |-> "none"]
AttributeError == [kind |-> "AttributeError"]
ConnectionResetError == [kind |-> "ConnectionResetError"]
TransportError(at) == [kind |-> "TransportError", at |-> at]
TypeError == [kind |-> "TypeError"]
JSONDecodeError == [kind |-> "JSONDecodeError"]
KeyError(k) == [kind |-> "KeyError", key |-> k]

RemoteFileServicesError(type, message, url, tracebacks) ==
    [kind |-> "RemoteFileServicesError", type |-> type, message |-> message,
     url |-> url, tracebacks |-> tracebacks]

RemoteOSError(errno, strerror, filename, url) ==
    [kind |-> "RemoteOSError", errno |-> errno, strerror |-> strerror,
     filename |-> filename, type |-> "OSError",
     message |-> <<errno, strerror, filename>>, url |-> url,
     tracebacks |-> <<>>]

from_json(data, url) ==
    IF "errno" \notin DOMAIN data THEN KeyError("errno")
    ELSE IF "strerror" \notin DOMAIN data THEN KeyError("strerror")
    ELSE IF "filename" \notin DOMAIN data THEN KeyError("filename")
    ELSE RemoteOSError(data["errno"], data["strerror"], data["filename"], url)

\* --------------------------------------------------------- status frames
OsMembers == <<<<"errno", 2>>, <<"strerror", "No such file">>, <<"filename", "/x">>>>
Opt(b, members) == IF b THEN members ELSE <<>>

PayloadStatuses == {LOCKED, EXPECTATION_FAILED, INTERNAL_SERVER_ERROR}

Payload(hasStatus, st, os, ty, msg, tb) ==
    JsonText(Opt(hasStatus, <<<<"status", st>>>>)
             \o Opt(os, OsMembers)
             \o Opt(ty, <<<<"type", "ValueError">>>>)
             \o Opt(msg, <<<<"message", "boom">>>>)
             \o Opt(tb, <<<<"tracebacks", <<"Traceback">>>>>>))

Payloads ==
    {Payload(TRUE, st, os, ty, msg, tb) :
        st \in PayloadStatuses, os \in BOOLEAN, ty \in BOOLEAN,
        msg \in BOOLEAN, tb \in BOOLEAN}
    \cup {Payload(FALSE, 0, os, ty, FALSE, FALSE) : os \in BOOLEAN, ty \in BOOLEAN}
    \cup {Malformed}

Frame(type, data, extra) == [type |-> type, data |-> data, extra |-> extra]
NoFrame == Frame("none", 0, Malformed)

StatusFrames ==
    {Frame(ty, 0, Malformed) : ty \in {"TEXT", "BINARY"}}
    \cup {Frame("CLOSE", PROTOCOL_ERROR, p) : p \in Payloads}
    \cup {Frame("CLOSE", c, p) :
            c \in OtherCloseCodes,
            p \in {Malformed, Payload(TRUE, EXPECTATION_FAILED, TRUE, TRUE, TRUE, TRUE)}}

\* variant: only a close frame with code 1002 rejects the handshake
check_connection_1002_only(status) ==
    IF status.type = "CLOSE" /\ status.data = PROTOCOL_ERROR
    THEN [closes |-> TRUE, exc |-> JSONDecodeError]
    ELSE [closes |-> FALSE, exc |-> NoExc]

\* _check_connection after the receive: whether it closes the websocket and
\* the exception it raises (NoExc: returns normally).
check_connection(status) ==
    IF status.type = "CLOSE"
    THEN [closes |-> TRUE,
          exc |->
            IF status.data = PROTOCOL_ERROR
            THEN LET parsed == json_loads(status.extra)
                     data == parsed.obj
                 IN  IF ~parsed.ok THEN JSONDecodeError
                     ELSE IF "status" \notin DOMAIN data THEN KeyError("status")
                     ELSE IF data["status"] \in {LOCKED, EXPECTATION_FAILED}
                          THEN from_json(data, URL)
                          ELSE RemoteFileServicesError(
                                   Get(data, "type", "UnknownError"),
                                   Get(data, "message", "Unknown error"),
                                   URL,
                                   Get(data, "tracebacks", <<>>))
            ELSE RemoteFileServicesError("UnknownError", "Failed to open file", URL, <<>>)]
    ELSE [closes |-> FALSE, exc |-> NoExc]

\* ----------------------------------------------------------------- codec
\* Python values carry their type: bytes and str hold a sequence of byte
\* values or of code points.
NoValue == [py |-> "NoneType", v |-> 0]
PyInt(n) == [py |-> "int", v |-> n]
PyBytes(bs) == [py |-> "bytes", v |-> bs]
PyStr(cps) == [py |-> "str", v |-> cps]
PyList(xs) == [py |-> "list", v |-> xs]
PyError(kind) == [py |-> "error", v |-> kind]

PadChar == 61
\* the base64 alphabet: A-Z, a-z, 0-9, +, /
B64Char(n) ==
    IF n < 26 THEN 65 + n
    ELSE IF n < 52 THEN 97 + (n - 26)
    ELSE IF n < 62 THEN 48 + (n - 52)
    ELSE IF n = 62 THEN 43 ELSE 47
IsB64Char(c) == \E n \in 0..63 : B64Char(n) = c
B64Val(c) == CHOOSE n \in 0..63 : B64Char(n) = c

RECURSIVE b64encode(_)
\* base64.b64encode(...).decode("ascii"): the code points of the base64 text
b64encode(bs) ==
    IF Len(bs) = 0 THEN <<>>
    ELSE IF Len(bs) = 1
    THEN <<B64Char(bs[1] \div 4), B64Char((bs[1] % 4) * 16), PadChar, PadChar>>
    ELSE IF Len(bs) = 2
    THEN <<B64Char(bs[1] \div 4), B64Char((bs[1] % 4) * 16 + (bs[2] \div 16)),
           B64Char((bs[2] % 16) * 4), PadChar>>
    ELSE <<B64Char(bs[1] \div 4), B64Char((bs[1] % 4) * 16 + (bs[2] \div 16)),
           B64Char((bs[2] % 16) * 4 + (bs[3] \div 64)), B64Char(bs[3] % 64)>>
         \o b64encode(SubSeq(bs, 4, Len(bs)))

RECURSIVE B64Quads(_)
\* the bytes of a base64 text made of whole quads
B64Quads(cs) ==
    IF Len(cs) = 0 THEN <<>>
    ELSE LET a == B64Val(cs[1])
             b == B64Val(cs[2])
             first == <<a * 4 + (b \div 16)>>
         IN  IF cs[3] = PadChar THEN first
             ELSE LET c == B64Val(cs[3])
                      second == <<(b % 16) * 16 + (c \div 4)>>
                  IN  IF cs[4] = PadChar THEN first \o second
                      ELSE first \o second \o <<(c % 4) * 64 + B64Val(cs[4])>>
                           \o B64Quads(SubSeq(cs, 5, Len(cs)))

\* a base64 text b64decode accepts: whole quads, padding only at the end
WellPadded(cs) ==
    /\ Len(cs) % 4 = 0
    /\ \A i \in 1..Len(cs) :
          cs[i] = PadChar =>
              /\ i > Len(cs) - 2
              /\ i > 2
              /\ \A j \in i..Len(cs) : cs[j] = PadChar

\* base64.b64decode (validate=False): characters outside the alphabet are
\* discarded; bytes, or binascii.Error where the rest is not whole quads
b64decode(cs) ==
    LET kept == SelectSeq(cs, LAMBDA c : IsB64Char(c) \/ c = PadChar)
    IN  IF WellPadded(kept) THEN PyBytes(B64Quads(kept)) ELSE PyError("binascii.Error")

RECURSIVE utf8_encode(_)
\* UTF-8 of code points below 2048
utf8_encode(cps) ==
    IF Len(cps) = 0 THEN <<>>
    ELSE (IF cps[1] < 128 THEN <<cps[1]>>
          ELSE <<192 + (cps[1] \div 64), 128 + (cps[1] % 64)>>)
         \o utf8_encode(Tail(cps))

RECURSIVE utf8_decode(_)
\* the code points, or <<-1>> where the bytes are not UTF-8
utf8_decode(bs) ==
    IF Len(bs) = 0 THEN <<>>
    ELSE IF bs[1] < 128
    THEN LET rest == utf8_decode(Tail(bs))
         IN  IF rest = <<-1>> THEN rest ELSE <<bs[1]>> \o rest
    ELSE IF bs[1] \in 194..223 /\ Len(bs) >= 2 /\ bs[2] \in 128..191
    THEN LET rest == utf8_decode(SubSeq(bs, 3, Len(bs)))
         IN  IF rest = <<-1>> THEN rest
             ELSE <<(bs[1] - 192) * 64 + (bs[2] - 128)>> \o rest
    ELSE <<-1>>

\* str.encode(encoding): bytes, or UnicodeEncodeError
str_encode(cps, enc) ==
    IF enc = "utf-8" THEN PyBytes(utf8_encode(cps))
    ELSE IF \A i \in 1..Len(cps) : cps[i] < 256
         THEN PyBytes(cps) ELSE PyError("UnicodeEncodeError")

\* bytes.decode(encoding): str, or UnicodeDecodeError
bytes_decode(bs, enc) ==
    IF enc = "utf-8"
    THEN (IF utf8_decode(bs) = <<-1>> THEN PyError("UnicodeDecodeError")
          ELSE PyStr(utf8_decode(bs)))
    ELSE PyStr(bs)

HasB(md) == \E i \in 1..Len(md) : md[i] = "b"

\* variant: the mode is not consulted, the bytes are always decoded to text
decode_data_text_always(data, md, enc) ==
    IF data.py # "str" THEN data
    ELSE LET raw == b64decode(data.v)
         IN  IF raw.py = "error" THEN raw ELSE bytes_decode(raw.v, enc)

\* variant: the encoding is not consulted, the bytes are returned as they are
decode_data_binary_always(data, md, enc) ==
    IF data.py # "str" THEN data ELSE b64decode(data.v)

\* _decode_data
decode_data(data, md, enc) ==
    IF data.py # "str" THEN data
    ELSE LET raw == b64decode(data.v)
         IN  IF raw.py = "error" THEN raw
             ELSE IF HasB(md) THEN raw
             ELSE bytes_decode(raw.v, enc)

\* variant: text is always encoded as UTF-8
encode_data_utf8(data, enc) ==
    IF data.py = "bytes" THEN PyStr(b64encode(data.v))
    ELSE IF data.py = "str" THEN PyStr(b64encode(utf8_encode(data.v)))
    ELSE data

\* variant: the final `return data` is missing
encode_data_no_passthrough(data, enc) ==
    IF data.py = "bytes" THEN PyStr(b64encode(data.v))
    ELSE IF data.py = "str"
    THEN LET raw == str_encode(data.v, enc)
         IN  IF raw.py = "error" THEN raw ELSE PyStr(b64encode(raw.v))
    ELSE NoValue

\* _encode_data
encode_data(data, enc) ==
    IF data.py = "bytes" THEN PyStr(b64encode(data.v))
    ELSE IF data.py = "str"
    THEN LET raw == str_encode(data.v, enc)
         IN  IF raw.py = "error" THEN raw ELSE PyStr(b64encode(raw.v))
    ELSE data

\* ------------------------------------------------------- response frames

Response(st, os, svc, data) ==
    JsonText(<<<<"status", st>>>>
             \o Opt(os, OsMembers)
             \o Opt(svc, <<<<"type", "ValueError">>, <<"message", "boom">>,
                           <<"tracebacks", <<"Traceback">>>>>>)
             \o Opt(data # NoValue, <<<<"data", data>>>>))

\* "aOk=": base64 of the bytes 68 E9
ServedData ==
    {NoValue, PyInt(3), PyStr(b64encode(<<104, 233>>)),
     PyList(<<PyStr(b64encode(<<104, 233>>)), PyInt(3)>>)}

Responses ==
    {Response(200, FALSE, FALSE, d) : d \in ServedData}
    \cup {Response(EXPECTATION_FAILED, TRUE, FALSE, NoValue)}
    \cup {Response(INTERNAL_SERVER_ERROR, FALSE, svc, NoValue) : svc \in BOOLEAN}

\* the first error among decoded list elements, or the decoded list
ListOrError(xs) ==
    IF \E i \in 1..Len(xs) : xs[i].py = "error"
    THEN xs[CHOOSE i \in 1..Len(xs) :
              xs[i].py = "error" /\ \A j \in 1..(i - 1) : xs[j].py # "error"]
    ELSE PyList(xs)

\* variant: a list in data is handed to _decode_data as one value
get_response_outcome_no_list(body) ==
    LET parsed == json_loads(body)
        message == parsed.obj
    IN  IF ~parsed.ok THEN [exc |-> JSONDecodeError, value |-> NoValue]
        ELSE IF "status" \notin DOMAIN message
             THEN [exc |-> KeyError("status"), value |-> NoValue]
        ELSE IF message["status"] > 400
             THEN [exc |-> IF message["status"] = EXPECTATION_FAILED
                           THEN from_json(message, URL)
                           ELSE RemoteFileServicesError(
                                    Get(message, "type", "UnknownError"),
                                    Get(message, "message", "Unknown error"),
                                    URL,
                                    Get(message, "tracebacks", <<>>)),
                   value |-> NoValue]
        ELSE LET data == Get(message, "data", NoValue)
                 value == IF data = NoValue THEN NoValue
                          ELSE decode_data(data, mode, encoding)
             IN  IF value.py = "error"
                 THEN [exc |-> [kind |-> value.v], value |-> NoValue]
                 ELSE [exc |-> NoExc, value |-> value]

\* _get_response after the receive: the exception raised (NoExc: returns
\* normally) and the value returned.
get_response_outcome(body) ==
    LET parsed == json_loads(body)
        message == parsed.obj
    IN  IF ~parsed.ok THEN [exc |-> JSONDecodeError, value |-> NoValue]
        ELSE IF "status" \notin DOMAIN message
             THEN [exc |-> KeyError("status"), value |-> NoValue]
        ELSE IF message["status"] > 400
             THEN [exc |-> IF message["status"] = EXPECTATION_FAILED
                           THEN from_json(message, URL)
                           ELSE RemoteFileServicesError(
                                    Get(message, "type", "UnknownError"),
                                    Get(message, "message", "Unknown error"),
                                    URL,
                                    Get(message, "tracebacks", <<>>)),
                   value |-> NoValue]
        ELSE LET data == Get(message, "data", NoValue)
                 value == IF data = NoValue THEN NoValue
                          ELSE IF data.py = "list"
                               THEN ListOrError([i \in 1..Len(data.v) |->
                                        decode_data(data.v[i], mode, encoding)])
                               ELSE decode_data(data, mode, encoding)
             IN  IF value.py = "error"
                 THEN [exc |-> [kind |-> value.v], value |-> NoValue]
                 ELSE [exc |-> NoExc, value |-> value]

\* ---------------------------------------------------- metadata responses
ClientResponseError(status) == [kind |-> "ClientResponseError", status |-> status]

\* response.raise_for_status() of the transport: raises from status 400 up
transport_raise_for_status(status) ==
    IF status >= 400 THEN ClientResponseError(status) ELSE NoExc

\* variant: every status above 400 is translated from the body
raise_for_status_above_400(status, body, url, in_context) ==
    IF status <= 400
    THEN [exc |-> NoExc, released |-> FALSE]
    ELSE LET parsed == json_loads(body)
             data == IF parsed.ok THEN parsed.obj ELSE <<>>
         IN  [exc |-> IF status = EXPECTATION_FAILED
                      THEN from_json(data, url)
                      ELSE RemoteFileServicesError(
                               Get(data, "type", "UnknownError"),
                               Get(data, "message", "Unknown error"),
                               url,
                               Get(data, "tracebacks", <<>>)),
              released |-> ~in_context]

\* _raise_for_status on a response with this status, body and url: the
\* exception raised (NoExc: returns normally) and whether it released the
\* response itself
raise_for_status(status, body, url, in_context) ==
    IF status \notin {INTERNAL_SERVER_ERROR, EXPECTATION_FAILED}
    THEN [exc |-> transport_raise_for_status(status), released |-> FALSE]
    ELSE LET parsed == json_loads(body)
             data == IF parsed.ok THEN parsed.obj ELSE <<>>
         IN  [exc |-> IF status = EXPECTATION_FAILED
                      THEN from_json(data, url)
                      ELSE RemoteFileServicesError(
                               Get(data, "type", "UnknownError"),
                               Get(data, "message", "Unknown error"),
                               url,
                               Get(data, "tracebacks", <<>>)),
              released |-> ~in_context]

\* ----------------------------------------------------------------- state
Methods == {"read", "readline", "readlines", "write", "writelines", "seek",
            "tell", "truncate", "flush", "fileno", "isatty", "readable",
            "writable"}
ConnectEntries == {"connect", "__aenter__", "open"}

\* With two caller tasks the inputs are drawn from smaller sets.
SingleCaller == Cardinality(tasks) = 1
CalledMethods == IF SingleCaller THEN Methods ELSE {"read", "write"}
ServedStatusFrames ==
    IF SingleCaller THEN StatusFrames
    ELSE {Frame("TEXT", 0, Malformed),
          Frame("CLOSE", PROTOCOL_ERROR, Payload(TRUE, INTERNAL_SERVER_ERROR, FALSE, TRUE, TRUE, TRUE))}
ServedResponses ==
    IF SingleCaller THEN Responses
    ELSE {Response(200, FALSE, FALSE, PyInt(3)),
          Response(INTERNAL_SERVER_ERROR, FALSE, TRUE, NoValue)}

NoCall == [op |-> "none", ws |-> None]
Call(op, ws) == [op |-> op, ws |-> ws]

NoResult == [op |-> "none", outcome |-> "none", exc |-> NoExc, value |-> NoValue, for |-> 0]
Returned(op, value, for) ==
    [op |-> op, outcome |-> "ok", exc |-> NoExc, value |-> value, for |-> for]
Raised(op, exc, for) ==
    [op |-> op, outcome |-> "raise", exc |-> exc, value |-> NoValue, for |-> for]

\* what write and writelines are called with
WritePayloads == {PyBytes(<<0, 1>>), PyStr(<<104, 233>>)}
OpArgs(m) ==
    IF m = "write" THEN WritePayloads
    ELSE IF m = "writelines" THEN {PyList(<<p>>) : p \in WritePayloads}
    ELSE {NoValue}

\* variant: write and writelines send their payload as it is
RequestData_unencoded(m, arg) == arg

\* the payload of the request frame of operation m: write and writelines
\* encode theirs
RequestData(m, arg) ==
    IF m = "write" THEN encode_data(arg, encoding)
    ELSE IF m = "writelines"
    THEN ListOrError([i \in 1..Len(arg.v) |-> encode_data(arg.v[i], encoding)])
    ELSE arg

\* no evaluation under way, no metadata call made
NoProbe == [stage |-> "none"]
NoRequest == [verb |-> "none", endpoint |-> "none", params |-> {}]
NoMeta == [pc |-> "idle", op |-> "none", calls |-> 0, started |-> 0,
           request |-> NoRequest, status |-> 0, body |-> Malformed,
           exc |-> NoExc, value |-> <<>>, released |-> FALSE]
\* the tasks calling the metadata API
MetaCallers == {3, 4}
NoMetaCalls == [c \in MetaCallers |-> NoMeta]
\* no remote file served, no PathManager built
NoFile == [content |-> <<>>, pos |-> 0, calls |-> <<>>, yielded |-> <<>>,
           iter |-> "none", driver |-> "none"]
NoPathManager == [stage |-> "none"]

\* the mode and encoding the handle is constructed with
HandleArgs(ts) ==
    IF Cardinality(ts) = 1
    THEN {<<<<"r", "b">>, "utf-8">>, <<<<"r">>, "latin-1">>}
    ELSE {<<<<"r", "b">>, "utf-8">>}

\* the handle after __init__ (lines 52-60), no call made yet
InitHandle(ts, md, enc) ==
    /\ tasks = ts
    /\ mode = md
    /\ encoding = enc
    /\ pc = [t \in AllTasks |-> "idle"]
    /\ cur = [t \in AllTasks |-> NoCall]
    /\ websocket = None
    /\ wsState = [w \in WsIds |-> "none"]
    /\ nWs = 0
    /\ hsFrame = NoFrame
    /\ wsStatus = [w \in WsIds |-> 0]
    /\ superClosed = FALSE
    /\ closeDone = FALSE
    /\ pending = [w \in WsIds |-> <<>>]
    /\ inbox = [w \in WsIds |-> <<>>]
    /\ nSent = 0
    /\ nRecv = 0
    /\ result = [t \in AllTasks |-> NoResult]
    /\ nFail = 0
    /\ nConnectOk = 0
    /\ ncalls = 0

InitWith(ts) ==
    /\ \E a \in HandleArgs(ts) : InitHandle(ts, a[1], a[2])
    /\ handle \in {"live", "absent"}
    /\ probe = NoProbe
    /\ meta = NoMetaCalls
    /\ file = NoFile
    /\ pm = NoPathManager

Init == InitWith({1})

CanCall(t) == t \in tasks /\ pc[t] = "idle" /\ ncalls < MaxCalls

\* open() builds the handle; while it runs no other caller holds the handle.
AfterOpen(op, ok) ==
    IF op = "open" THEN (IF ok THEN "live" ELSE "discarded") ELSE handle

\* ---------------------------------------------------------------- connect
\* variant of the guard: a handle whose websocket is closed reconnects
already_connected_and_open == websocket # None /\ wsState[websocket] = "open"

\* variant of the guard: connect() always connects
already_connected_never == FALSE

\* connect(), line 63: the guard
already_connected == websocket # None

\* variant of the handler: the reference is kept
connect_except_keep(ws) == ws

\* connect(), line 73: the reference after a failed handshake
connect_except(ws) == None

\* connect() up to the await of ws_connect, entered by connect(), __aenter__
\* or SpyderRemoteFileServicesAPI.open()
connect(t, e) ==
    /\ CanCall(t)
    /\ IF e = "open" THEN handle = "absent" ELSE handle = "live"
    /\ ncalls' = ncalls + 1
    /\ IF already_connected
       THEN /\ result' = [result EXCEPT ![t] = Returned(e, NoValue, 0)]
            /\ nConnectOk' = nConnectOk + 1
            /\ UNCHANGED <<pc, cur, handle>>
       ELSE /\ nWs < MaxWs
            /\ pc' = [pc EXCEPT ![t] = "ws_connect"]
            /\ cur' = [cur EXCEPT ![t] = Call(e, None)]
            /\ handle' = IF e = "open" THEN "opening" ELSE handle
            /\ UNCHANGED <<result, nConnectOk>>
    /\ hsFrame' = IF already_connected THEN hsFrame ELSE NoFrame
    /\ UNCHANGED <<tasks, mode, encoding, probe, meta, file, pm, websocket, wsState, nWs, wsStatus, superClosed,
                   closeDone, pending, inbox, nSent, nRecv, nFail>>

\* ws_connect returns a websocket: line 65 assigns it and _check_connection
\* starts its receive on it
ws_connect_ok(t) ==
    /\ t \in tasks /\ pc[t] = "ws_connect"
    /\ nWs < MaxWs
    /\ nWs' = nWs + 1
    /\ websocket' = nWs'
    /\ wsState' = [wsState EXCEPT ![nWs'] = "open"]
    /\ pc' = [pc EXCEPT ![t] = "receive_status"]
    /\ cur' = [cur EXCEPT ![t] = Call(cur[t].op, nWs')]
    /\ UNCHANGED <<tasks, mode, encoding, probe, meta, file, pm, handle, hsFrame, wsStatus, superClosed, closeDone,
                   pending, inbox, nSent, nRecv, result, nFail, nConnectOk, ncalls>>

\* ws_connect raises: nothing is assigned, the exception leaves connect()
ws_connect_raise(t) ==
    /\ t \in tasks /\ pc[t] = "ws_connect"
    /\ pc' = [pc EXCEPT ![t] = "idle"]
    /\ result' = [result EXCEPT ![t] = Raised(cur[t].op, TransportError("ws_connect"), 0)]
    /\ cur' = [cur EXCEPT ![t] = NoCall]
    /\ nFail' = nFail + 1
    /\ handle' = AfterOpen(cur[t].op, FALSE)
    /\ UNCHANGED <<tasks, mode, encoding, probe, meta, file, pm, websocket, wsState, nWs, hsFrame, wsStatus, superClosed,
                   closeDone, pending, inbox, nSent, nRecv, nConnectOk, ncalls>>

\* _check_connection receives the status frame; connect() returns or, lines
\* 72-74, clears the reference and re-raises
receive_status(t) ==
    /\ t \in tasks /\ pc[t] = "receive_status"
    /\ wsState[cur[t].ws] = "open"
    /\ \E status \in ServedStatusFrames :
         LET out == check_connection(status)
             exc == IF out.closes /\ websocket = None THEN AttributeError ELSE out.exc
         IN  /\ hsFrame' = status
             /\ wsStatus' = [wsStatus EXCEPT ![cur[t].ws] = @ + 1]
             /\ wsState' = IF out.closes /\ websocket # None
                           THEN [wsState EXCEPT ![websocket] = "closed"]
                           ELSE wsState
             /\ IF exc = NoExc
                THEN /\ result' = [result EXCEPT ![t] = Returned(cur[t].op, NoValue, 0)]
                     /\ nConnectOk' = nConnectOk + 1
                     /\ handle' = AfterOpen(cur[t].op, TRUE)
                     /\ UNCHANGED <<websocket, nFail>>
                ELSE /\ result' = [result EXCEPT ![t] = Raised(cur[t].op, exc, 0)]
                     /\ websocket' = connect_except(websocket)
                     /\ nFail' = nFail + 1
                     /\ handle' = AfterOpen(cur[t].op, FALSE)
                     /\ UNCHANGED nConnectOk
    /\ pc' = [pc EXCEPT ![t] = "idle"]
    /\ cur' = [cur EXCEPT ![t] = NoCall]
    /\ UNCHANGED <<tasks, mode, encoding, probe, meta, file, pm, nWs, superClosed, closeDone, pending, inbox, nSent,
                   nRecv, ncalls>>

\* variant of the handler: the failed handshake is retried on a new
\* connection
receive_status_raise_retries(t) ==
    /\ t \in tasks /\ pc[t] = "receive_status"
    /\ nWs < MaxWs
    /\ pc' = [pc EXCEPT ![t] = "ws_connect"]
    /\ cur' = [cur EXCEPT ![t] = Call(cur[t].op, None)]
    /\ websocket' = connect_except(websocket)
    /\ UNCHANGED <<tasks, mode, encoding, probe, meta, file, pm, handle, wsState, nWs, hsFrame, wsStatus,
                   superClosed, closeDone, pending, inbox, nSent, nRecv, result,
                   nFail, nConnectOk, ncalls>>

\* the receive of _check_connection raises (transport failure, timeout):
\* lines 72-74 clear the reference and re-raise
receive_status_raise(t) ==
    /\ t \in tasks /\ pc[t] = "receive_status"
    /\ pc' = [pc EXCEPT ![t] = "idle"]
    /\ result' = [result EXCEPT ![t] = Raised(cur[t].op, TransportError("receive"), 0)]
    /\ cur' = [cur EXCEPT ![t] = NoCall]
    /\ websocket' = connect_except(websocket)
    /\ nFail' = nFail + 1
    /\ handle' = AfterOpen(cur[t].op, FALSE)
    /\ UNCHANGED <<tasks, mode, encoding, probe, meta, file, pm, wsState, nWs, hsFrame, wsStatus, superClosed, closeDone,
                   pending, inbox, nSent, nRecv, nConnectOk, ncalls>>

\* ------------------------------------------------------------------ close
\* variant of close(): the websocket is left open
close_keeps_transport(t) ==
    /\ CanCall(t) /\ handle = "live"
    /\ ncalls' = ncalls + 1
    /\ IF websocket = None
       THEN /\ result' = [result EXCEPT ![t] = Raised("close", AttributeError, 0)]
            /\ UNCHANGED <<superClosed, closeDone>>
       ELSE /\ superClosed' = TRUE
            /\ closeDone' = TRUE
            /\ result' = [result EXCEPT ![t] = Returned("close", NoValue, 0)]
    /\ UNCHANGED <<tasks, mode, encoding, probe, meta, file, pm, handle, pc, cur, websocket, wsState, nWs, hsFrame,
                   wsStatus, pending, inbox, nSent, nRecv, nFail, nConnectOk>>

\* close(): closes the websocket, then super().close()
close(t) ==
    /\ CanCall(t) /\ handle = "live"
    /\ ncalls' = ncalls + 1
    /\ IF websocket = None
       THEN /\ result' = [result EXCEPT ![t] = Raised("close", AttributeError, 0)]
            /\ UNCHANGED <<wsState, superClosed, closeDone>>
       ELSE /\ wsState' = [wsState EXCEPT ![websocket] = "closed"]
            /\ superClosed' = TRUE
            /\ closeDone' = TRUE
            /\ result' = [result EXCEPT ![t] = Returned("close", NoValue, 0)]
    /\ UNCHANGED <<tasks, mode, encoding, probe, meta, file, pm, handle, pc, cur, websocket, nWs, hsFrame, wsStatus,
                   pending, inbox, nSent, nRecv, nFail, nConnectOk>>

\* -------------------------------------------------------- file operations
\* a file operation m called with arg: it encodes its payload and
\* _send_request sends the frame; `after` is where the operation goes then;
\* at most `limit` requests are sent in a behaviour
SendRequestUpTo(t, m, arg, after, limit) ==
    /\ CanCall(t) /\ handle = "live"
    /\ ncalls' = ncalls + 1
    /\ LET data == RequestData(m, arg)
       IN  IF data.py = "error"
           THEN /\ result' = [result EXCEPT ![t] = Raised(m, [kind |-> data.v], 0)]
                /\ UNCHANGED <<pc, cur, pending, nSent>>
           ELSE IF websocket = None
           THEN /\ result' = [result EXCEPT ![t] = Raised(m, AttributeError, 0)]
                /\ UNCHANGED <<pc, cur, pending, nSent>>
           ELSE IF wsState[websocket] # "open"
           THEN /\ result' = [result EXCEPT ![t] = Raised(m, ConnectionResetError, 0)]
                /\ UNCHANGED <<pc, cur, pending, nSent>>
           ELSE /\ nSent < limit
                /\ pending' = [pending EXCEPT ![websocket] =
                                  Append(@, [method |-> m, data |-> data, task |-> t])]
                /\ nSent' = nSent + 1
                /\ pc' = [pc EXCEPT ![t] = after]
                /\ cur' = [cur EXCEPT ![t] = Call(m, websocket)]
                /\ UNCHANGED result
    /\ UNCHANGED <<tasks, mode, encoding, probe, meta, pm, handle, websocket, wsState, nWs, hsFrame,
                   wsStatus, superClosed, closeDone, inbox, nRecv, nFail, nConnectOk>>

SendRequest(t, m, arg, after) ==
    SendRequestUpTo(t, m, arg, after, MaxOps) /\ UNCHANGED file

\* variant of a file operation: it returns without awaiting _get_response
send_request_no_wait(t, m, arg) == SendRequest(t, m, arg, "idle")

\* a file operation up to the await of its response: it sends the request
\* and calls _get_response
send_request(t, m, arg) == SendRequest(t, m, arg, "receive_bytes")

\* the server answers the oldest request of a websocket
server_respond(w) ==
    /\ wsState[w] = "open"
    /\ pending[w] # <<>>
    /\ \E body \in ServedResponses :
         inbox' = [inbox EXCEPT ![w] =
                     Append(@, [for |-> Head(pending[w]).task, body |-> body])]
    /\ pending' = [pending EXCEPT ![w] = Tail(@)]
    /\ UNCHANGED <<tasks, mode, encoding, probe, meta, file, pm, handle, pc, cur, websocket, wsState, nWs, hsFrame,
                   wsStatus, superClosed, closeDone, nSent, nRecv, result, nFail,
                   nConnectOk, ncalls>>

\* variant of _get_response: an error response closes the websocket
get_response_closes_on_error(t) ==
    /\ t \in tasks /\ pc[t] = "receive_bytes"
    /\ inbox[cur[t].ws] # <<>>
    /\ LET frame == Head(inbox[cur[t].ws])
           out == get_response_outcome(frame.body)
           exc == IF out.exc.kind \in {"RemoteOSError", "RemoteFileServicesError"}
                     /\ websocket = None
                  THEN AttributeError ELSE out.exc
       IN  result' = [result EXCEPT ![t] =
                        IF exc = NoExc
                        THEN Returned(cur[t].op, out.value, frame.for)
                        ELSE Raised(cur[t].op, exc, frame.for)]
    /\ inbox' = [inbox EXCEPT ![cur[t].ws] = Tail(@)]
    /\ nRecv' = nRecv + 1
    /\ pc' = [pc EXCEPT ![t] = "idle"]
    /\ cur' = [cur EXCEPT ![t] = NoCall]
    /\ wsState' = IF get_response_outcome(Head(inbox[cur[t].ws]).body).exc.kind
                        \in {"RemoteOSError", "RemoteFileServicesError"}
                  THEN [wsState EXCEPT ![cur[t].ws] = "closed"] ELSE wsState
    /\ UNCHANGED <<tasks, mode, encoding, probe, meta, file, pm, handle, websocket, nWs, hsFrame, wsStatus,
                   superClosed, closeDone, pending, nSent, nFail, nConnectOk,
                   ncalls>>

StopIteration == [kind |-> "StopIteration"]
\* what a coroutine that raises StopIteration ends with
RuntimeError == [kind |-> "RuntimeError", msg |-> "coroutine raised StopIteration"]

\* the truth value of a Python value
Truthy(value) ==
    IF value.py \in {"bytes", "str", "list"} THEN value.v # <<>>
    ELSE IF value.py = "int" THEN value.v # 0
    ELSE value # NoValue

\* __next__, lines 159-162: what it makes of the line read; the StopIteration
\* raised inside the coroutine leaves it as a RuntimeError
next_outcome(r) ==
    IF r.outcome = "ok" /\ ~Truthy(r.value)
    THEN Raised("__next__", RuntimeError, r.for)
    ELSE [r EXCEPT !.op = "__next__"]

\* what the operation suspended at position `at` makes of the outcome r of
\* _get_response: __next__ and the generator __iter__ go on after readline()
\* has returned it, every other operation returns it
finish_operation(at, r) ==
    IF at = "next_receive" THEN next_outcome(r)
    ELSE IF at = "iter_receive" THEN [r EXCEPT !.op = "__iter__"]
    ELSE r

\* _get_response of the operation that task t is suspended in at position
\* `at`: it consumes one frame
GetResponseAt(t, at) ==
    /\ t \in tasks /\ pc[t] = at
    /\ inbox[cur[t].ws] # <<>>
    /\ LET frame == Head(inbox[cur[t].ws])
           out == get_response_outcome(frame.body)
           exc == IF out.exc.kind \in {"RemoteOSError", "RemoteFileServicesError"}
                     /\ websocket = None
                  THEN AttributeError ELSE out.exc
       IN  result' = [result EXCEPT ![t] =
                        finish_operation(at,
                            IF exc = NoExc
                            THEN Returned(cur[t].op, out.value, frame.for)
                            ELSE Raised(cur[t].op, exc, frame.for))]
    /\ inbox' = [inbox EXCEPT ![cur[t].ws] = Tail(@)]
    /\ nRecv' = nRecv + 1
    /\ pc' = [pc EXCEPT ![t] = "idle"]
    /\ cur' = [cur EXCEPT ![t] = NoCall]
    /\ UNCHANGED <<tasks, mode, encoding, probe, meta, pm, handle, websocket, wsState, nWs, hsFrame, wsStatus,
                   superClosed, closeDone, pending, nSent, nFail, nConnectOk,
                   ncalls>>

\* the rest of a file operation: it returns what _get_response returns
get_response(t) ==
    GetResponseAt(t, "receive_bytes") /\ UNCHANGED file

Next ==
    \/ \E t \in AllTasks, e \in ConnectEntries : connect(t, e)
    \/ \E t \in AllTasks : ws_connect_ok(t)
    \/ \E t \in AllTasks : ws_connect_raise(t)
    \/ \E t \in AllTasks : receive_status(t)
    \/ \E t \in AllTasks : receive_status_raise(t)
    \/ \E t \in AllTasks : close(t)
    \/ \E t \in AllTasks, m \in CalledMethods :
          \E arg \in OpArgs(m) : send_request(t, m, arg)
    \/ \E w \in WsIds : server_respond(w)
    \/ \E t \in AllTasks : get_response(t)

Spec == Init /\ [][Next]_vars

\* ------------------------------------------------------- two caller tasks
\* a task is waiting in receive on a websocket that another task closed
\* meanwhile: the receive yields the closing of the session, not a frame
receive_closed(t) ==
    /\ t \in tasks /\ pc[t] \in {"receive_status", "receive_bytes"}
    /\ wsState[cur[t].ws] = "closed"
    /\ inbox[cur[t].ws] = <<>>
    /\ IF pc[t] = "receive_bytes"
       THEN /\ result' = [result EXCEPT ![t] = Raised(cur[t].op, TypeError, 0)]
            /\ UNCHANGED <<websocket, hsFrame, nFail, nConnectOk, handle>>
       ELSE \E status \in {Frame("CLOSED", 0, Malformed)}
                          \cup {Frame("CLOSE", c, Malformed) : c \in OtherCloseCodes} :
              LET out == check_connection(status)
                  exc == IF out.closes /\ websocket = None THEN AttributeError ELSE out.exc
              IN  /\ hsFrame' = status
                  /\ IF exc = NoExc
                     THEN /\ result' = [result EXCEPT ![t] = Returned(cur[t].op, NoValue, 0)]
                          /\ nConnectOk' = nConnectOk + 1
                          /\ handle' = AfterOpen(cur[t].op, TRUE)
                          /\ UNCHANGED <<websocket, nFail>>
                     ELSE /\ result' = [result EXCEPT ![t] = Raised(cur[t].op, exc, 0)]
                          /\ websocket' = connect_except(websocket)
                          /\ nFail' = nFail + 1
                          /\ handle' = AfterOpen(cur[t].op, FALSE)
                          /\ UNCHANGED nConnectOk
    /\ pc' = [pc EXCEPT ![t] = "idle"]
    /\ cur' = [cur EXCEPT ![t] = NoCall]
    /\ UNCHANGED <<tasks, mode, encoding, probe, meta, file, pm, wsState, nWs, wsStatus, superClosed, closeDone, pending,
                   inbox, nSent, nRecv, ncalls>>

InitConc == InitWith({1, 2})

NextConc ==
    \/ Next
    \/ \E t \in AllTasks : receive_closed(t)

SpecConc == InitConc /\ [][NextConc]_vars

\* ---------------------------------------------------------------- readinto
NotImplementedError == [kind |-> "NotImplementedError"]

\* variant of readinto(): it asks the server before it raises
readinto_sends_request(t) ==
    /\ CanCall(t) /\ handle = "live"
    /\ websocket # None
    /\ ncalls' = ncalls + 1
    /\ pending' = [pending EXCEPT ![websocket] =
                      Append(@, [method |-> "readinto", data |-> NoValue, task |-> t])]
    /\ result' = [result EXCEPT ![t] = Raised("readinto", NotImplementedError, 0)]
    /\ UNCHANGED <<tasks, mode, encoding, probe, meta, file, pm, handle, pc, cur, websocket, wsState, nWs,
                   hsFrame, wsStatus, superClosed, closeDone, inbox, nSent, nRecv,
                   nFail, nConnectOk>>

\* readinto(), lines 182-183: raises NotImplementedError
readinto(t) ==
    /\ CanCall(t) /\ handle = "live"
    /\ ncalls' = ncalls + 1
    /\ result' = [result EXCEPT ![t] = Raised("readinto", NotImplementedError, 0)]
    /\ UNCHANGED <<tasks, mode, encoding, probe, meta, file, pm, handle, pc, cur, websocket, wsState, nWs,
                   hsFrame, wsStatus, superClosed, closeDone, pending, inbox, nSent,
                   nRecv, nFail, nConnectOk>>

\* two callers of one handle, readinto() among their calls
NextReadinto ==
    \/ NextConc
    \/ \E t \in AllTasks : readinto(t)

SpecReadinto == InitConc /\ [][NextReadinto]_vars

\* ------------------------------------------- file operations, mock server
\* The handle is Open and talks to a mock transport: its server keeps the
\* bytes of one file and a position, stores the decoded payload of a write
\* at the position and serves reads from it.
AcceptedFrame == Frame("TEXT", 0, Malformed)

\* the handle after connect() has returned on a new handle
InitOpen(md, enc) ==
    /\ tasks = {1}
    /\ mode = md
    /\ encoding = enc
    /\ handle = "live"
    /\ pc = [t \in AllTasks |-> "idle"]
    /\ cur = [t \in AllTasks |-> NoCall]
    /\ websocket = 1
    /\ wsState = [w \in WsIds |-> IF w = 1 THEN "open" ELSE "none"]
    /\ nWs = 1
    /\ hsFrame = AcceptedFrame
    /\ wsStatus = [w \in WsIds |-> IF w = 1 THEN 1 ELSE 0]
    /\ superClosed = FALSE
    /\ closeDone = FALSE
    /\ pending = [w \in WsIds |-> <<>>]
    /\ inbox = [w \in WsIds |-> <<>>]
    /\ nSent = 0
    /\ nRecv = 0
    /\ result = [t \in AllTasks |-> IF t = 1 THEN Returned("connect", NoValue, 0)
                                    ELSE NoResult]
    /\ nFail = 0
    /\ nConnectOk = 1
    /\ ncalls = 1

\* the file after a write of bs at pos (a gap is filled with zero bytes)
WriteAt(content, pos, bs) ==
    LET before == [i \in 1..pos |-> IF i <= Len(content) THEN content[i] ELSE 0]
        after == SubSeq(content, pos + Len(bs) + 1, Len(content))
    IN  before \o bs \o after

\* the bytes from pos to the end of the file
ReadFrom(content, pos) == SubSeq(content, pos + 1, Len(content))

NewLine == 10
\* the bytes from pos up to and including the next newline, or to the end
LineFrom(content, pos) ==
    LET rest == ReadFrom(content, pos)
        ends == {i \in 1..Len(rest) : rest[i] = NewLine}
    IN  IF ends = {} THEN rest
        ELSE SubSeq(rest, 1, CHOOSE i \in ends : \A j \in ends : i <= j)

ServerError == [content |-> <<>>, pos |-> 0, ok |-> FALSE, data |-> NoValue]
\* what the mock server does with a request: the file and position after it
\* and the data of its response
mock_serve(req, content, pos) ==
    IF req.method = "write"
    THEN IF req.data.py # "str" THEN ServerError
         ELSE LET raw == b64decode(req.data.v)
              IN  IF raw.py = "error" THEN ServerError
                  ELSE [content |-> WriteAt(content, pos, raw.v),
                        pos |-> pos + Len(raw.v),
                        ok |-> TRUE,
                        data |-> PyInt(Len(raw.v))]
    ELSE IF req.method = "seek"
    THEN [content |-> content, pos |-> req.data.v, ok |-> TRUE,
          data |-> PyInt(req.data.v)]
    ELSE IF req.method = "read"
    THEN [content |-> content, pos |-> IF pos > Len(content) THEN pos ELSE Len(content),
          ok |-> TRUE,
          data |-> PyStr(b64encode(ReadFrom(content, pos)))]
    ELSE IF req.method = "readline"
    THEN [content |-> content, pos |-> pos + Len(LineFrom(content, pos)),
          ok |-> TRUE,
          data |-> PyStr(b64encode(LineFrom(content, pos)))]
    ELSE ServerError

\* the mock server answers the oldest request of a websocket
mock_respond(w) ==
    /\ wsState[w] = "open"
    /\ pending[w] # <<>>
    /\ LET req == Head(pending[w])
           out == mock_serve(req, file.content, file.pos)
           body == IF out.ok THEN Response(200, FALSE, FALSE, out.data)
                   ELSE Response(INTERNAL_SERVER_ERROR, FALSE, TRUE, NoValue)
       IN  /\ inbox' = [inbox EXCEPT ![w] = Append(@, [for |-> req.task, body |-> body])]
           /\ file' = IF out.ok
                      THEN [file EXCEPT !.content = out.content, !.pos = out.pos]
                      ELSE file
    /\ pending' = [pending EXCEPT ![w] = Tail(@)]
    /\ UNCHANGED <<tasks, mode, encoding, probe, meta, pm, handle, pc, cur, websocket, wsState, nWs, hsFrame,
                   wsStatus, superClosed, closeDone, nSent, nRecv, result, nFail,
                   nConnectOk, ncalls>>

\* write(s), read(size), seek(pos), readline(size) up to the await of the
\* response: the call is noted in the history of the handle
file_call(t, m, arg) ==
    /\ SendRequestUpTo(t, m, arg, "receive_bytes", MaxCalls)
    /\ file' = [file EXCEPT !.calls = Append(@, [op |-> m, arg |-> arg])]

\* the payloads written, the positions sought, the size read
FilePayloads == {PyBytes(<<>>), PyBytes(<<255>>), PyBytes(<<0, 1>>),
                 PyBytes(<<104, 10, 233, 255>>)}
SeekPositions == {PyInt(0), PyInt(1)}
WholeFile == PyInt(-1)
FileHandleArgs == {<<<<"w", "+", "b">>, "utf-8">>, <<<<"w", "+">>, "latin-1">>}

InitFile ==
    /\ \E a \in FileHandleArgs : InitOpen(a[1], a[2])
    /\ probe = NoProbe
    /\ meta = NoMetaCalls
    /\ file = NoFile
    /\ pm = NoPathManager

NextFile ==
    \/ \E t \in AllTasks, b \in FilePayloads : file_call(t, "write", b)
    \/ \E t \in AllTasks, p \in SeekPositions : file_call(t, "seek", p)
    \/ \E t \in AllTasks : file_call(t, "read", WholeFile)
    \/ \E w \in WsIds : mock_respond(w)
    \/ \E t \in AllTasks : get_response(t)

SpecFile == InitFile /\ [][NextFile]_vars

\* ---------------------------------------------------------- line iteration
\* The handle is Open on a file of the mock server and is read line by line
\* in one of four ways: by explicit readline() calls, by `async for` over the
\* handle, by `async for` over the async generator that __iter__() returns,
\* or by __next__ calls.
\* __iter__, line 155: the loop runs on while the line read is truthy
iter_continues(response) == Truthy(response)

AllLines == PyInt(-1)

\* the special methods SpyderRemoteFileIOAPI defines (lines 52, 76, 154, 158)
\* on top of FileIO
SpecialMethods == {"__init__", "__aenter__", "__iter__", "__next__"}
\* special methods the class inherits from FileIO (line 4, line 49), which
\* implements the synchronous protocols only
FileIOSpecialMethods == {"__enter__", "__exit__", "__del__", "__repr__"}

\* `async for line in handle`: the statement calls __aiter__ of the handle's
\* type and raises TypeError where the type has none
async_for(t) ==
    /\ file.driver = "async for"
    /\ file.iter = "none"
    /\ CanCall(t) /\ handle = "live"
    /\ IF "__aiter__" \in SpecialMethods \cup FileIOSpecialMethods
       THEN /\ file' = [file EXCEPT !.iter = "created"]
            /\ UNCHANGED <<result, ncalls>>
       ELSE /\ file' = [file EXCEPT !.iter = "raised"]
            /\ result' = [result EXCEPT ![t] = Raised("async for", TypeError, 0)]
            /\ ncalls' = ncalls + 1
    /\ UNCHANGED <<tasks, mode, encoding, probe, meta, pm, handle, pc, cur, websocket, wsState, nWs,
                   hsFrame, wsStatus, superClosed, closeDone, pending, inbox, nSent,
                   nRecv, nFail, nConnectOk>>

\* one step of the async generator __iter__ up to the await of the response:
\* the loop condition calls readline()
iter_readline(t) ==
    /\ file.driver \in {"__iter__", "async for"}
    /\ file.iter \in {"created", "suspended"}
    /\ SendRequestUpTo(t, "readline", AllLines, "iter_receive", MaxCalls)
    /\ file' = [file EXCEPT !.calls = Append(@, [op |-> "readline", arg |-> AllLines]),
                            !.iter = "running"]

\* the rest of the step: the generator yields the line, or returns where the
\* line is falsy, or the exception of readline() leaves it
iter_receive(t) ==
    /\ GetResponseAt(t, "iter_receive")
    /\ file' = [file EXCEPT
                  !.yielded = IF result'[t].outcome = "ok" /\ iter_continues(result'[t].value)
                              THEN Append(@, result'[t].value) ELSE @,
                  !.iter = IF result'[t].outcome # "ok" THEN "raised"
                           ELSE IF iter_continues(result'[t].value) THEN "suspended"
                           ELSE "returned"]

\* __next__ up to the await of the response
next_readline(t) ==
    /\ file.driver = "__next__"
    /\ SendRequestUpTo(t, "readline", AllLines, "next_receive", MaxCalls)
    /\ file' = [file EXCEPT !.calls = Append(@, [op |-> "readline", arg |-> AllLines])]

\* the rest of __next__
next_receive(t) ==
    /\ GetResponseAt(t, "next_receive")
    /\ file' = [file EXCEPT
                  !.yielded = IF result'[t].outcome = "ok"
                              THEN Append(@, result'[t].value) ELSE @]

\* an explicit readline() call
readline(t) ==
    /\ file.driver = "readline"
    /\ file_call(t, "readline", AllLines)

\* the files served: empty, a last line without newline, an empty line, more
\* lines than are read
FileContents == {<<>>, <<97, 10>>, <<97, 10, 98>>, <<10, 98>>, <<97, 10, 10, 98, 10, 99>>}
Drivers == {"readline", "async for", "__iter__", "__next__"}

InitIter ==
    /\ \E a \in HandleArgs({1}) : InitOpen(a[1], a[2])
    /\ probe = NoProbe
    /\ meta = NoMetaCalls
    /\ \E c \in FileContents, d \in Drivers :
         file = [NoFile EXCEPT !.content = c, !.driver = d,
                               !.iter = IF d = "__iter__" THEN "created" ELSE "none"]
    /\ pm = NoPathManager

NextIter ==
    \/ \E t \in AllTasks : readline(t)
    \/ \E t \in AllTasks : get_response(t)
    \/ \E t \in AllTasks : async_for(t)
    \/ \E t \in AllTasks : iter_readline(t)
    \/ \E t \in AllTasks : iter_receive(t)
    \/ \E t \in AllTasks : next_readline(t)
    \/ \E t \in AllTasks : next_receive(t)
    \/ \E w \in WsIds : mock_respond(w)

SpecIter == InitIter /\ [][NextIter]_vars

\* ------------------------------------------------------ response decoders
\* One response handed to each of the three places that decode a status:
\* _get_response (session), _raise_for_status (metadata) and
\* _check_connection (handshake, the body as the payload of a 1002 close frame).
sessionVars == <<tasks, mode, encoding, handle, pc, cur, websocket, wsState, nWs,
                 hsFrame, wsStatus, superClosed, closeDone, pending, inbox, nSent,
                 nRecv, result, nFail, nConnectOk, ncalls>>

PyDict(d) == [py |-> "dict", v |-> d]

\* "aOk=": base64 of 68 E9, not UTF-8; "aA": not base64; "aGk=": base64 of "hi"
Wire_hE9 == PyStr(b64encode(<<104, 233>>))
Wire_hi == PyStr(b64encode(<<104, 105>>))
NotBase64 == PyStr(<<97, 65>>)

ResponseData ==
    {NoValue, PyInt(0), PyInt(3), PyDict([name |-> Wire_hi]), Wire_hi, Wire_hE9,
     NotBase64, PyList(<<>>), PyList(<<PyInt(3), NoValue>>),
     PyList(<<Wire_hi, PyInt(3), Wire_hi>>), PyList(<<Wire_hi, Wire_hE9>>),
     PyList(<<Wire_hi, PyList(<<Wire_hi>>)>>), PyList(<<NotBase64, Wire_hE9>>)}

WithData(text, d) == JsonText(text.members \o <<<<"data", d>>>>)

DecoderStatuses == {200, 400, 404, EXPECTATION_FAILED, INTERNAL_SERVER_ERROR}

ResponseBodies ==
    {Payload(TRUE, st, os, ty, msg, tb) :
        st \in DecoderStatuses, os \in BOOLEAN, ty \in BOOLEAN,
        msg \in BOOLEAN, tb \in BOOLEAN}
    \cup {WithData(Payload(TRUE, st, FALSE, FALSE, FALSE, FALSE), d) :
            st \in {200, 400}, d \in ResponseData}
    \cup {Payload(FALSE, 0, os, FALSE, FALSE, FALSE) : os \in BOOLEAN}
    \cup {Malformed}

DecoderHandleArgs ==
    {<<<<"r", "b">>, "utf-8">>, <<<<"r">>, "utf-8">>, <<<<"r">>, "latin-1">>}

NotApplied == [exc |-> [kind |-> "not applied"]]

InitDecode ==
    /\ \E a \in DecoderHandleArgs : InitHandle({1}, a[1], a[2])
    /\ handle = "live"
    /\ meta = NoMetaCalls
    /\ file = NoFile
    /\ pm = NoPathManager
    /\ \E h \in DecoderStatuses, b \in ResponseBodies :
          probe = [stage |-> "response", status |-> h, body |-> b,
                   session |-> NotApplied, metadata |-> NotApplied,
                   handshake |-> NotApplied]

\* _get_response on the body received as a response frame
apply_get_response ==
    /\ probe.stage = "response" /\ probe.session = NotApplied
    /\ probe' = [probe EXCEPT !.session = get_response_outcome(probe.body)]
    /\ UNCHANGED <<sessionVars, meta, file, pm>>

\* _raise_for_status on an HTTP response with the status and the body
apply_raise_for_status ==
    /\ probe.stage = "response" /\ probe.metadata = NotApplied
    /\ probe' = [probe EXCEPT
                   !.metadata = raise_for_status(probe.status, probe.body, URL, FALSE)]
    /\ UNCHANGED <<sessionVars, meta, file, pm>>

\* _check_connection on a 1002 close frame carrying the body
apply_check_connection ==
    /\ probe.stage = "response" /\ probe.handshake = NotApplied
    /\ probe' = [probe EXCEPT
                   !.handshake = check_connection(Frame("CLOSE", PROTOCOL_ERROR, probe.body))]
    /\ UNCHANGED <<sessionVars, meta, file, pm>>

NextDecode ==
    \/ apply_get_response
    \/ apply_raise_for_status
    \/ apply_check_connection

SpecDecode == InitDecode /\ [][NextDecode]_vars

\* ------------------------------------------------------ codec round trip
\* One payload taken through _encode_data and the wire value through
\* _decode_data, or served as the data of a successful response.
SeqsUpTo(S, n) == UNION {[1..k -> S] : k \in 0..n}

\* 0xFF is not UTF-8; U+00E9 is two bytes in UTF-8 and one in Latin-1; U+03E8
\* has no Latin-1 encoding
CodecBytes == {104, 233, 255}
CodePoints == {104, 233, 1000}

PassThroughValues ==
    {NoValue, PyInt(0), PyInt(3), PyDict([name |-> Wire_hi]), PyList(<<>>),
     PyList(<<PyInt(3), NoValue>>), PyList(<<Wire_hi, PyInt(3)>>)}

CodecPayloads ==
    {PyBytes(bs) : bs \in SeqsUpTo(CodecBytes, MaxLen)}
    \cup {PyStr(cps) : cps \in SeqsUpTo(CodePoints, MaxLen)}
    \cup PassThroughValues

CodecHandleArgs ==
    {<<md, enc>> : md \in {<<"r", "b">>, <<"r">>}, enc \in {"utf-8", "latin-1"}}

InitCodec ==
    /\ \E a \in CodecHandleArgs : InitHandle({1}, a[1], a[2])
    /\ handle = "live"
    /\ meta = NoMetaCalls
    /\ file = NoFile
    /\ pm = NoPathManager
    /\ \E p \in CodecPayloads :
          probe = [stage |-> "payload", payload |-> p, wire |-> NoValue,
                   back |-> NoValue, received |-> NotApplied]

\* _encode_data on the payload
apply_encode_data ==
    /\ probe.stage = "payload"
    /\ probe' = [probe EXCEPT !.stage = "encoded",
                              !.wire = encode_data(probe.payload, encoding)]
    /\ UNCHANGED <<sessionVars, meta, file, pm>>

\* _decode_data on what _encode_data returned
apply_decode_data ==
    /\ probe.stage = "encoded" /\ probe.wire.py # "error"
    /\ probe' = [probe EXCEPT !.stage = "decoded",
                              !.back = decode_data(probe.wire, mode, encoding)]
    /\ UNCHANGED <<sessionVars, meta, file, pm>>

\* _get_response on a successful response whose data is the payload (bytes
\* cannot be a JSON value)
apply_get_response_data ==
    /\ probe.stage = "payload" /\ probe.payload.py # "bytes"
    /\ probe' = [probe EXCEPT
                   !.stage = "received",
                   !.received = get_response_outcome(
                       WithData(Payload(TRUE, 200, FALSE, FALSE, FALSE, FALSE),
                                probe.payload))]
    /\ UNCHANGED <<sessionVars, meta, file, pm>>

NextCodec ==
    \/ apply_encode_data
    \/ apply_decode_data
    \/ apply_get_response_data

SpecCodec == InitCodec /\ [][NextCodec]_vars

\* --------------------------------------------------- metadata operations
MetaURL == "http://host/spyder-services/fsspec"

MetaOps == {"ls", "info", "exists", "is_file", "is_dir", "mkdir", "rmdir",
            "unlink", "copy", "copy2", "replace", "touch"}

Request(verb, endpoint, params) ==
    [verb |-> verb, endpoint |-> endpoint, params |-> params]

\* the one session.get / session.post / session.delete of each operation
MetaRequest(op) ==
    CASE op = "ls"      -> Request("GET", "ls", {"detail"})
      [] op = "info"    -> Request("GET", "info", {})
      [] op = "exists"  -> Request("GET", "exists", {})
      [] op = "is_file" -> Request("GET", "isfile", {})
      [] op = "is_dir"  -> Request("GET", "isdir", {})
      [] op = "mkdir"   -> Request("POST", "mkdir", {"create_parents", "exist_ok"})
      [] op = "rmdir"   -> Request("DELETE", "rmdir", {})
      [] op = "unlink"  -> Request("DELETE", "file", {"missing_ok"})
      [] op = "copy"    -> Request("POST", "copy", {"dest"})
      [] op = "copy2"   -> Request("POST", "copy", {"dest", "metadata"})
      [] op = "replace" -> Request("POST", "move", {"dest"})
      [] op = "touch"   -> Request("POST", "touch", {"truncate"})

MetaStatuses == {200, 400, 404, EXPECTATION_FAILED, INTERNAL_SERVER_ERROR}

\* bodies of metadata responses: error bodies, a listing entry, an empty
\* object and a body that is not JSON
MetaBodies ==
    {Payload(FALSE, 0, os, svc, svc, svc) : os \in BOOLEAN, svc \in BOOLEAN}
    \cup {JsonText(<<<<"name", "/x">>, <<"size", 3>>>>), Malformed}

\* The session hands every response to _raise_for_status before the
\* operation sees it (the session is built outside plugin.py); the response
\* is not yet inside the `async with`.
session_response_hook(status, body) ==
    raise_for_status(status, body, MetaURL, FALSE)

\* a metadata operation up to its await of session.get/post/delete
metadata_call(c, op) ==
    /\ c \in tasks
    /\ meta[c].pc = "idle"
    /\ meta[c].started < MaxMetaCalls
    /\ meta' = [meta EXCEPT ![c] =
                  [NoMeta EXCEPT !.pc = "request", !.op = op,
                                 !.calls = meta[c].calls + 1,
                                 !.started = meta[c].started + 1,
                                 !.request = MetaRequest(op)]]
    /\ UNCHANGED <<sessionVars, probe, file, pm>>

\* variant: the API object keeps the last response in one slot that all
\* callers read
metadata_response_shared_slot(c, status, body) ==
    /\ c \in tasks
    /\ meta[c].pc = "request"
    /\ LET hook == session_response_hook(status, body)
           parsed == json_loads(body)
       IN  meta' = [d \in MetaCallers |->
                      [meta[d] EXCEPT
                         !.pc = IF d = c THEN "idle" ELSE @,
                         !.status = status,
                         !.body = body,
                         !.exc = IF hook.exc # NoExc THEN hook.exc
                                 ELSE IF parsed.ok THEN NoExc ELSE JSONDecodeError,
                         !.value = IF hook.exc = NoExc /\ parsed.ok
                                   THEN parsed.obj ELSE <<>>,
                         !.released = TRUE]]
    /\ UNCHANGED <<sessionVars, probe, file, pm>>

\* the response arrives: the hook raises, or the operation returns
\* response.json(); leaving the `async with` releases the response
metadata_response(c, status, body) ==
    /\ c \in tasks
    /\ meta[c].pc = "request"
    /\ LET hook == session_response_hook(status, body)
           parsed == json_loads(body)
       IN  meta' = [meta EXCEPT
                      ![c].pc = "idle",
                      ![c].status = status,
                      ![c].body = body,
                      ![c].exc = IF hook.exc # NoExc THEN hook.exc
                                 ELSE IF parsed.ok THEN NoExc ELSE JSONDecodeError,
                      ![c].value = IF hook.exc = NoExc /\ parsed.ok
                                   THEN parsed.obj ELSE <<>>,
                      ![c].released = TRUE]
    /\ UNCHANGED <<sessionVars, probe, file, pm>>

InitMeta ==
    /\ InitHandle({3}, <<"r">>, "utf-8")
    /\ handle = "absent"
    /\ probe = NoProbe
    /\ meta = NoMetaCalls
    /\ file = NoFile
    /\ pm = NoPathManager

NextMeta ==
    \/ \E c \in MetaCallers, op \in MetaOps : metadata_call(c, op)
    \/ \E c \in MetaCallers, status \in MetaStatuses, body \in MetaBodies :
          metadata_response(c, status, body)

SpecMeta == InitMeta /\ [][NextMeta]_vars

\* ------------------------------------------ file session and metadata API
\* One caller works on a file handle while two others call the metadata API;
\* the wait for a response of the file session may time out.
TimeoutError == [kind |-> "TimeoutError"]

\* variant: the wait that timed out closes the websocket
get_response_timeout_closes(t) ==
    /\ t \in tasks /\ pc[t] = "receive_bytes"
    /\ wsState[cur[t].ws] = "open"
    /\ inbox[cur[t].ws] = <<>>
    /\ result' = [result EXCEPT ![t] = Raised(cur[t].op, TimeoutError, 0)]
    /\ pc' = [pc EXCEPT ![t] = "idle"]
    /\ cur' = [cur EXCEPT ![t] = NoCall]
    /\ wsState' = [wsState EXCEPT ![cur[t].ws] = "closed"]
    /\ UNCHANGED <<tasks, mode, encoding, probe, meta, file, pm, handle, websocket, nWs, hsFrame,
                   wsStatus, superClosed, closeDone, pending, inbox, nSent, nRecv,
                   nFail, nConnectOk, ncalls>>

\* receive_bytes in _get_response (line 129) times out before a frame has
\* arrived: the timeout error leaves the operation; the transport keeps the
\* websocket open
get_response_timeout(t) ==
    /\ t \in tasks /\ pc[t] = "receive_bytes"
    /\ wsState[cur[t].ws] = "open"
    /\ inbox[cur[t].ws] = <<>>
    /\ result' = [result EXCEPT ![t] = Raised(cur[t].op, TimeoutError, 0)]
    /\ pc' = [pc EXCEPT ![t] = "idle"]
    /\ cur' = [cur EXCEPT ![t] = NoCall]
    /\ UNCHANGED <<tasks, mode, encoding, probe, meta, file, pm, handle, websocket, wsState, nWs,
                   hsFrame, wsStatus, superClosed, closeDone, pending, inbox, nSent,
                   nRecv, nFail, nConnectOk, ncalls>>

\* the metadata calls made beside the file session and their responses
SharedMetaOps == {"ls"}
SharedMetaStatuses == {200, INTERNAL_SERVER_ERROR}
SharedMetaBodies == {Payload(FALSE, 0, FALSE, TRUE, TRUE, TRUE)}

InitShared == InitWith({1} \cup MetaCallers)

NextShared ==
    \/ Next
    \/ \E t \in AllTasks : get_response_timeout(t)
    \/ \E c \in MetaCallers, op \in SharedMetaOps : metadata_call(c, op)
    \/ \E c \in MetaCallers, status \in SharedMetaStatuses, body \in SharedMetaBodies :
          metadata_response(c, status, body)

SpecShared == InitShared /\ [][NextShared]_vars

\* -------------------------------------------------------------- PathManager
\* The dialog of pathmanager.py: the rows of its list widget (headers and
\* path items), the current row (rows count from 0, -1: none), the header
\* attributes, the path attributes given to the constructor and the buttons.
\* A directory is the sequence of its components; an ordered dict is the
\* sequence of its <<key, value>> pairs.
HeaderItem(section) == [header |-> section, text |-> <<>>, checked |-> FALSE]
PathItem(path, checked) == [header |-> "none", text |-> path, checked |-> checked]

DictKeys(d) == {d[i][1] : i \in 1..Len(d)}
RECURSIVE DictUpdate(_, _, _)
\* dict.update({key: value}) on an ordered dict
DictUpdate(d, key, value) ==
    IF d = <<>> THEN <<<<key, value>>>>
    ELSE IF Head(d)[1] = key THEN <<<<key, value>>>> \o Tail(d)
    ELSE <<Head(d)>> \o DictUpdate(Tail(d), key, value)

\* osp.abspath of an absolute directory: "." components are dropped
abspath(directory) == SelectSeq(directory, LAMBDA c : c # ".")

\* _create_item, lines 211-222: a project path is always checked
create_item(path, active, project_paths) ==
    PathItem(path, IF path \in DictKeys(project_paths) THEN TRUE ELSE active)

\* listwidget.item(row), rows counted from 0
ItemAt(rows, row) == rows[row + 1]
\* listwidget.insertItem(row, item): a row beyond the end appends
InsertItem(rows, row, item) ==
    LET at == IF row > Len(rows) THEN Len(rows) ELSE row
    IN  SubSeq(rows, 1, at) \o <<item>> \o SubSeq(rows, at + 1, Len(rows))
\* listwidget.setCurrentRow(row): a row the list does not have leaves no
\* current item
SetCurrentRow(rows, row) == IF row \in 0..(Len(rows) - 1) THEN row ELSE -1
\* listwidget.takeItem(row)
TakeItem(rows, row) == SubSeq(rows, 1, row) \o SubSeq(rows, row + 2, Len(rows))

\* the header that the item at index i (from 1) stands under, "none" if none
SectionOf(rows, i) ==
    LET hs == {j \in 1..(i - 1) : rows[j].header # "none"}
    IN  IF hs = {} THEN "none"
        ELSE rows[CHOOSE j \in hs : \A k \in hs : k <= j].header

RECURSIVE PathsUnder(_, _, _)
\* the walk of get_user_paths / get_system_paths over the first n rows
PathsUnder(rows, section, n) ==
    IF n = 0 THEN <<>>
    ELSE LET before == PathsUnder(rows, section, n - 1)
         IN  IF rows[n].header = "none" /\ SectionOf(rows, n) = section
             THEN DictUpdate(before, rows[n].text, rows[n].checked)
             ELSE before

\* get_user_paths, lines 395-416
get_user_paths(d) ==
    IF ~d.user_header THEN <<>> ELSE PathsUnder(d.rows, "user", Len(d.rows))

\* get_system_paths, lines 418-439
get_system_paths(d) ==
    IF ~d.system_header THEN <<>> ELSE PathsUnder(d.rows, "system", Len(d.rows))

\* editable_bottom_row, lines 271-281
editable_bottom_row(d) ==
    (IF d.project_header THEN Len(d.project_paths) + 1 ELSE 0)
    + (IF d.user_header THEN Len(get_user_paths(d)) ELSE 0)

\* editable_top_row, lines 283-293
editable_top_row(d) ==
    (IF d.project_header THEN Len(d.project_paths) + 1 ELSE 0)
    + (IF d.user_header THEN 1 ELSE 0)

\* refresh, lines 450-493: the buttons that are enabled
refresh(d) ==
    LET row == d.current
        has_item == row >= 0
        on_header == has_item /\ ItemAt(d.rows, row).header # "none"
        no_move == on_header \/ row > editable_bottom_row(d)
        no_up == row <= editable_top_row(d) \/ no_move
        no_down == row = editable_bottom_row(d) \/ no_move
    IN  [d EXCEPT
           !.buttons =
              [movetop |-> has_item /\ ~no_up,
               moveup |-> has_item /\ ~no_up,
               movedown |-> has_item /\ ~no_down,
               movebottom |-> has_item /\ ~no_down,
               remove |-> /\ ~on_header
                          /\ editable_top_row(d) <= row
                          /\ row <= editable_bottom_row(d),
               export |-> Len(d.rows) > 0,
               ok |-> \/ d.user_paths # get_user_paths(d)
                      \/ d.system_paths # get_system_paths(d)]]

NoButtons == [movetop |-> FALSE, moveup |-> FALSE, movedown |-> FALSE,
              movebottom |-> FALSE, remove |-> FALSE, export |-> FALSE,
              ok |-> FALSE]
NoOperation == [op |-> "none"]

\* the rows that setup() adds for one section, lines 304-336
SectionRows(section, paths, project_paths) ==
    IF paths = <<>> THEN <<>>
    ELSE <<HeaderItem(section)>>
         \o [i \in 1..Len(paths) |-> create_item(paths[i][1], paths[i][2], project_paths)]

\* __init__ and setup(), lines 59-150 and 295-344
PathManager(user_paths, project_paths, system_paths) ==
    LET rows == SectionRows("project", project_paths, project_paths)
                \o SectionRows("user", user_paths, project_paths)
                \o SectionRows("system", system_paths, project_paths)
    IN  refresh([stage |-> "built",
                 user_paths |-> user_paths,
                 project_paths |-> project_paths,
                 system_paths |-> system_paths,
                 user_path |-> <<>>,
                 project_header |-> project_paths # <<>>,
                 user_header |-> user_paths # <<>>,
                 system_header |-> system_paths # <<>>,
                 rows |-> rows,
                 current |-> IF rows = <<>> THEN -1 ELSE 0,
                 buttons |-> NoButtons,
                 last |-> NoOperation,
                 adds |-> 0,
                 removes |-> 0,
                 moves |-> 0])

\* the rows whose text is the directory, in row order (findItems)
FoundRows(rows, directory) ==
    {r \in 0..(Len(rows) - 1) : ItemAt(rows, r).text = directory}
FirstOf(S) == CHOOSE r \in S : \A q \in S : r <= q

\* add_path, lines 513-527: the directory is in user_paths; the item found
\* is checked and, on Yes, moved
add_existing_path(d, directory, answer) ==
    LET row == FirstOf(FoundRows(d.rows, directory))
        item == [ItemAt(d.rows, row) EXCEPT !.checked = TRUE]
        checked == [d.rows EXCEPT ![row + 1] = item]
    IN  IF answer = "Yes"
        THEN [d EXCEPT !.rows = InsertItem(TakeItem(checked, row), 1, item),
                       !.current = SetCurrentRow(InsertItem(TakeItem(checked, row), 1, item), 1)]
        ELSE [d EXCEPT !.rows = checked]

\* add_path, lines 529-550: a new directory that check_path accepts
add_new_path(d, directory) ==
    LET with_header ==
            IF d.user_header THEN d
            ELSE LET h == [d EXCEPT !.user_header = TRUE]
                     header_row == IF editable_top_row(h) > 0
                                   THEN editable_top_row(h) - 1 ELSE 0
                 IN  [h EXCEPT !.rows = InsertItem(d.rows, header_row, HeaderItem("user"))]
        item == create_item(directory, TRUE, d.project_paths)
    IN  [with_header EXCEPT
           !.rows = InsertItem(with_header.rows, editable_top_row(with_header), item),
           !.current = editable_top_row(with_header),
           !.user_path = <<directory>> \o d.user_path]

MaxAdds == 2

\* add_path(directory), lines 496-569, with the answer to its question and
\* the verdict of check_path
add_path(directory, answer, valid) ==
    /\ pm.stage = "built"
    /\ pm.adds < MaxAdds
    /\ LET dir == abspath(directory)
           noted == [pm EXCEPT !.adds = pm.adds + 1,
                               !.last = [op |-> "add_path", directory |-> dir,
                                         known |-> dir \in DictKeys(pm.user_paths),
                                         answer |-> answer, valid |-> valid,
                                         raised |-> "none"]]
       IN  IF dir \in DictKeys(pm.user_paths)
           THEN IF FoundRows(pm.rows, dir) = {}
                THEN pm' = [noted EXCEPT !.last.raised = "IndexError"]
                ELSE pm' = refresh(add_existing_path(noted, dir, answer))
           ELSE IF valid
           THEN pm' = refresh(add_new_path(noted, dir))
           ELSE pm' = refresh(noted)
    /\ UNCHANGED <<sessionVars, probe, meta, file>>

\* the user selects a path item: currentRowChanged runs refresh (line 144);
\* headers and project paths cannot be selected (lines 216, 230)
select_row(row) ==
    /\ pm.stage = "built"
    /\ row \in 0..(Len(pm.rows) - 1)
    /\ ItemAt(pm.rows, row).header = "none"
    /\ ItemAt(pm.rows, row).text \notin DictKeys(pm.project_paths)
    /\ pm' = refresh([pm EXCEPT !.current = row, !.last = NoOperation])
    /\ UNCHANGED <<sessionVars, probe, meta, file>>

\* list.remove(x): the list without the first x
RECURSIVE ListRemove(_, _)
ListRemove(list, x) ==
    IF list = <<>> THEN <<>>
    ELSE IF Head(list) = x THEN Tail(list)
    ELSE <<Head(list)>> \o ListRemove(Tail(list), x)
ListElements(list) == {list[i] : i \in 1..Len(list)}

\* an item the view can make current by itself: headers are created without
\* ItemIsEnabled (line 230), project paths with NoItemFlags (line 216)
IsEnabled(d, row) ==
    /\ ItemAt(d.rows, row).header = "none"
    /\ ItemAt(d.rows, row).text \notin DictKeys(d.project_paths)

\* the current row once takeItem(row) has run: an earlier row keeps its item,
\* a later one follows it one row up, and when the current item itself is
\* taken the view makes the next enabled item current, else the previous
\* enabled one, else none
CurrentAfterTake(d, row) ==
    LET below == {r \in (row + 1)..(Len(d.rows) - 1) : IsEnabled(d, r)}
        above == {r \in 0..(row - 1) : IsEnabled(d, r)}
    IN  IF d.current < row THEN d.current
        ELSE IF d.current > row THEN d.current - 1
        ELSE IF below # {} THEN FirstOf(below) - 1
        ELSE IF above # {} THEN CHOOSE r \in above : \A q \in above : q <= r
        ELSE -1

\* listwidget.takeItem(row) with the current row that follows from it
take_item(d, row) ==
    [d EXCEPT !.rows = TakeItem(d.rows, row), !.current = CurrentAfterTake(d, row)]

\* listwidget.row(self.user_header)
user_header_row(d) ==
    FirstOf({r \in 0..(Len(d.rows) - 1) : ItemAt(d.rows, r) = HeaderItem("user")})

MaxRemoves == 2

\* remove_path(force), lines 571-603, with the answer to its question
remove_path(force, answer) ==
    /\ pm.stage = "built"
    /\ pm.removes < MaxRemoves
    /\ LET noted == [pm EXCEPT !.removes = pm.removes + 1,
                               !.last = [op |-> "remove_path", row |-> pm.current,
                                         section |-> IF pm.current < 0 THEN "none"
                                                     ELSE SectionOf(pm.rows, pm.current + 1),
                                         item |-> IF pm.current < 0 THEN HeaderItem("none")
                                                  ELSE ItemAt(pm.rows, pm.current),
                                         asked |-> pm.current >= 0 /\ (force \/ answer = "Yes"),
                                         raised |-> "none"]]
       IN  IF pm.current < 0 \/ (~force /\ answer # "Yes")
           THEN pm' = noted
           ELSE LET text == ItemAt(pm.rows, pm.current).text
                IN  IF text \notin ListElements(pm.user_path)
                    THEN pm' = [noted EXCEPT !.last.raised = "ValueError"]
                    ELSE LET removed == [noted EXCEPT !.user_path = ListRemove(pm.user_path, text)]
                             taken == take_item(removed, removed.current)
                         IN  IF Len(taken.user_path) # 0
                             THEN pm' = refresh(taken)
                             ELSE IF ~taken.user_header
                             THEN pm' = [refresh(taken) EXCEPT !.last.raised = "TypeError"]
                             ELSE pm' = refresh([take_item(taken, user_header_row(taken))
                                                   EXCEPT !.user_header = FALSE])
    /\ UNCHANGED <<sessionVars, probe, meta, file>>

\* the rows of the headers, each with its section
HeaderRows(rows) ==
    {<<r, ItemAt(rows, r).header>> : r \in {q \in 0..(Len(rows) - 1) : ItemAt(rows, q).header # "none"}}

Max(a, b) == IF a >= b THEN a ELSE b
Min(a, b) == IF a <= b THEN a ELSE b

\* the calls the four move buttons make, lines 111-134; an argument left at
\* its default None is <<>>
MoveCalls == {<<<<0>>, <<>>>>, <<<<1>>, <<>>>>, <<<<>>, <<-1>>>>, <<<<>>, <<1>>>>}

MaxMoves == 2

\* move_to(absolute, relative), lines 605-622, called with a current item.
\* setCurrentRow makes the moved item current, which runs refresh through
\* currentRowChanged (line 144); get_user_path (line 621) is not an attribute
\* of the dialog, so the call ends there with AttributeError and user_path is
\* not assigned.
move_to(absolute, relative) ==
    /\ pm.stage = "built"
    /\ pm.moves < MaxMoves
    /\ pm.current >= 0
    /\ LET index == pm.current
           wanted == IF absolute # <<>>
                     THEN IF absolute[1] # 0 THEN editable_bottom_row(pm)
                                             ELSE editable_top_row(pm)
                     ELSE index + relative[1]
           new_index == Max(1, Min(editable_bottom_row(pm), wanted))
           item == ItemAt(pm.rows, index)
           rows == InsertItem(TakeItem(pm.rows, index), new_index, item)
           moved == [pm EXCEPT !.moves = pm.moves + 1,
                               !.rows = rows,
                               !.current = SetCurrentRow(rows, new_index),
                               !.last = [op |-> "move_to", absolute |-> absolute,
                                         relative |-> relative, index |-> index,
                                         item |-> item,
                                         section |-> SectionOf(pm.rows, index + 1),
                                         headers |-> HeaderRows(pm.rows),
                                         enabled |-> IF absolute = <<0>> THEN pm.buttons.movetop
                                                     ELSE IF absolute = <<1>> THEN pm.buttons.movebottom
                                                     ELSE IF relative = <<-1>> THEN pm.buttons.moveup
                                                     ELSE pm.buttons.movedown,
                                         raised |-> "AttributeError"]]
       IN  pm' = refresh(moved)
    /\ UNCHANGED <<sessionVars, probe, meta, file>>

\* the directories of the dialog and what the constructor is given
AddedDirectories == {<<"a">>, <<"a", ".">>, <<"b">>, <<"c">>}
UserPathDicts == {<<>>, <<<<<<"a">>, TRUE>>>>, <<<<<<"a">>, TRUE>>, <<<<"b">>, FALSE>>>>}
ProjectPathDicts == {<<>>, <<<<<<"p">>, TRUE>>>>}
SystemPathDicts == {<<>>, <<<<<<"s">>, TRUE>>>>}

InitPath ==
    /\ InitHandle({1}, <<"r">>, "utf-8")
    /\ handle = "absent"
    /\ probe = NoProbe
    /\ meta = NoMetaCalls
    /\ file = NoFile
    /\ \E u \in UserPathDicts, pr \in ProjectPathDicts, sy \in SystemPathDicts :
         pm = PathManager(u, pr, sy)

NextPath ==
    \/ \E directory \in AddedDirectories, answer \in {"Yes", "No"}, valid \in BOOLEAN :
          add_path(directory, answer, valid)
    \/ \E row \in 0..(Len(pm.rows) - 1) : select_row(row)
    \/ \E force \in BOOLEAN, answer \in {"Yes", "No"} : remove_path(force, answer)
    \/ \E call \in MoveCalls : move_to(call[1], call[2])

SpecPath == InitPath /\ [][NextPath]_vars

\* ----------------------------------------------------------------- claims
RECURSIVE SumTo(_, _)
SumTo(f, n) == IF n = 0 THEN 0 ELSE f[n] + SumTo(f, n - 1)
\* status frames consumed on all websockets
NStatus == SumTo(wsStatus, MaxWs)

IsConnect(r) == r.op \in ConnectEntries
IsFileOp(r) == r.op \in Methods

\* C1: once close() has completed, no later call gives the handle another
\* websocket, establishes a transport connection or reopens the one it has.
C1_ClosedIsTerminal ==
    [][closeDone =>
         /\ closeDone'
         /\ websocket # None
         /\ websocket' = websocket
         /\ nWs' = nWs
         /\ wsState'[websocket] = "closed"]_vars

\* a connect() issued after close() has returned
C1_Witness ==
    /\ closeDone
    /\ result[1] = Returned("connect", NoValue, 0)
    /\ wsState[websocket] = "closed"

FailedHandshake(t) ==
    /\ pc[t] = "idle"
    /\ IsConnect(result[t]) /\ result[t].outcome = "raise"
    /\ result[t].exc # TransportError("ws_connect")

C4_EveryConnectionReleased ==
    \A w \in 1..nWs : (websocket # w \/ closeDone) => wsState[w] = "closed"

\* C5: without a failure, any number of connect() calls performs one
\* ws_connect and one handshake, and a connect() that returns after an
\* earlier one returned changes nothing of the handle or the session.
C5_ConnectIdempotent ==
    /\ [](nFail = 0 =>
            /\ nWs <= 1 /\ NStatus <= nWs
            /\ (nConnectOk >= 1 => nWs = 1 /\ NStatus = 1))
    /\ [][nConnectOk >= 1 /\ nConnectOk' = nConnectOk + 1 =>
            UNCHANGED <<pc, cur, websocket, wsState, nWs, hsFrame, wsStatus,
                        superClosed, closeDone, pending, inbox, nSent, nRecv,
                        nFail>>]_vars

\* three connect() calls returned, one connection, one handshake
C5_Witness ==
    /\ nConnectOk = 3 /\ nFail = 0
    /\ nWs = 1 /\ NStatus = 1
    /\ ~closeDone

\* the step is task t calling a file operation
FileOpCalled(t) ==
    /\ pc[t] = "idle"
    /\ ncalls' = ncalls + 1
    /\ \/ pc'[t] = "receive_bytes"
       \/ pc'[t] = "idle" /\ IsFileOp(result'[t])

\* C6: a file operation called while the handle is Unopened or Closed sends
\* no request frame and raises.
C6_FailFast ==
    [][\A t \in tasks :
          FileOpCalled(t) /\ (websocket = None \/ closeDone) =>
              /\ nSent' = nSent
              /\ pending' = pending
              /\ pc'[t] = "idle"
              /\ result'[t].outcome = "raise"]_vars

\* an operation on a closed handle raised, with the request of the one
\* operation made before close() the only one ever sent
C6_Witness ==
    /\ closeDone
    /\ IsFileOp(result[1]) /\ result[1].exc = ConnectionResetError
    /\ nSent = 1 /\ nRecv = 1

\* C7: with two caller tasks, no request is sent while an earlier request's
\* response is unconsumed, and every task gets the response to its own
\* request.
C7_NoConcurrentSteps ==
    /\ nSent <= nRecv + 1
    /\ \A t \in tasks : IsFileOp(result[t]) /\ result[t].for # 0 => result[t].for = t

\* C8: connect() and open() return normally only with exactly one status
\* frame consumed on the handle's websocket, that frame not a close frame;
\* every status frame that is not a close frame makes connect() return; and
\* open() hands out the handle exactly when it returns.
C8_OpenOnlyAfterStatusFrame ==
    /\ \A t \in tasks :
          IsConnect(result[t]) /\ result[t].outcome = "ok" =>
              /\ websocket # None
              /\ wsStatus[websocket] = 1
              /\ hsFrame.type \notin {"none", "CLOSE"}
    /\ hsFrame.type \notin {"none", "CLOSE"} =>
          /\ websocket # None
          /\ nConnectOk >= 1
          /\ handle = "live"
    /\ \A t \in tasks :
          result[t].op = "open" =>
              /\ result[t].outcome = "ok" => handle = "live"
              /\ result[t].outcome = "raise" => handle = "discarded"
    /\ \A w \in WsIds : wsStatus[w] <= 1

\* open() returned the handle after a binary first frame
C8_Witness ==
    /\ result[1] = Returned("open", NoValue, 0)
    /\ hsFrame.type = "BINARY"
    /\ handle = "live" /\ wsStatus[websocket] = 1

\* the latest connect() failed on the status frame hsFrame
RejectedBy(t) ==
    /\ pc[t] = "idle"
    /\ IsConnect(result[t]) /\ result[t].outcome = "raise"
    /\ hsFrame.type = "CLOSE"

HasStatusField(text) == text.valid /\ "status" \in Keys(text.members)

\* C9: a close frame with a diagnostic payload raises RemoteOSError from the
\* payload's errno, strerror, filename exactly when the payload's status is
\* 423 or 417, and otherwise RemoteFileServicesError from type, message,
\* tracebacks with the defaults.
C9_DiagnosticPayloadErrors ==
    \A t \in tasks :
        RejectedBy(t) /\ hsFrame.data = PROTOCOL_ERROR /\ HasStatusField(hsFrame.extra) =>
            LET data == json_loads(hsFrame.extra).obj
                exc == result[t].exc
            IN  IF data["status"] \in {LOCKED, EXPECTATION_FAILED}
                THEN /\ exc.kind = "RemoteOSError"
                     /\ exc.url = URL
                     /\ \A k \in {"errno", "strerror", "filename"} :
                            k \in DOMAIN data => exc[k] = data[k]
                ELSE exc = RemoteFileServicesError(
                               Get(data, "type", "UnknownError"),
                               Get(data, "message", "Unknown error"),
                               URL,
                               Get(data, "tracebacks", <<>>))

\* C10: a close frame without a usable diagnostic payload raises
\* RemoteFileServicesError("UnknownError", "Failed to open file", url, []).
C10_NoPayloadError ==
    \A t \in tasks :
        RejectedBy(t)
        /\ (hsFrame.data # PROTOCOL_ERROR \/ ~HasStatusField(hsFrame.extra)) =>
            result[t].exc =
                RemoteFileServicesError("UnknownError", "Failed to open file", URL, <<>>)

\* the status member of a response body, None where the body has none
BodyStatus(body) ==
    IF body.valid /\ "status" \in Keys(body.members)
    THEN json_loads(body).obj["status"] ELSE None
BodyData(body) == json_loads(body).obj
SessionDone == probe.stage = "response" /\ probe.session # NotApplied

\* C11: the session decoder classifies a response by its status: 417 raises
\* RemoteOSError, any other status above 400 raises RemoteFileServicesError
\* built from type/message/tracebacks or their defaults, and a status up to
\* 400 raises neither.
C11_SessionClassifiesByStatus ==
    (SessionDone /\ BodyStatus(probe.body) # None) =>
        LET st == BodyStatus(probe.body)
            data == BodyData(probe.body)
            exc == probe.session.exc
        IN  IF st = EXPECTATION_FAILED
            THEN exc.kind = "RemoteOSError"
            ELSE IF st > 400
            THEN exc = RemoteFileServicesError(
                           Get(data, "type", "UnknownError"),
                           Get(data, "message", "Unknown error"),
                           URL,
                           Get(data, "tracebacks", <<>>))
            ELSE exc.kind \notin {"RemoteOSError", "RemoteFileServicesError", "KeyError"}

MetadataDone == probe.stage = "response" /\ probe.metadata # NotApplied
HandshakeDone == probe.stage = "response" /\ probe.handshake # NotApplied
\* the body is a JSON object whose status member is the status of the response
CarriesStatus == BodyStatus(probe.body) = probe.status
\* the error _get_response raised for the status; a payload the codec
\* rejects is no part of the status taxonomy
SessionError ==
    IF probe.session.exc.kind \in {"binascii.Error", "UnicodeDecodeError"}
    THEN NoExc ELSE probe.session.exc

\* C12 as stated: for every status and body, _get_response and
\* _raise_for_status raise the same error (or none) with the same fields.
C12_OneErrorTaxonomy ==
    (SessionDone /\ MetadataDone /\ CarriesStatus) =>
        SessionError = probe.metadata.exc

\* C12 amended: the two decoders raise the same error with the same fields for
\* status 417 and 500, and neither raises below 400; for any other status above
\* 400 _get_response raises RemoteFileServicesError from the body while
\* _raise_for_status raises the transport's ClientResponseError, and for status
\* 400 _get_response raises nothing while _raise_for_status raises
\* ClientResponseError.
C12_TaxonomySharedFor417And500 ==
    (SessionDone /\ MetadataDone /\ CarriesStatus) =>
        LET st == probe.status
        IN  IF st \in {EXPECTATION_FAILED, INTERNAL_SERVER_ERROR} \/ st < 400
            THEN SessionError = probe.metadata.exc
            ELSE /\ probe.metadata.exc = ClientResponseError(st)
                 /\ SessionError.kind =
                        IF st > 400 THEN "RemoteFileServicesError" ELSE "none"

\* a 417 response raised the same RemoteOSError from both decoders
C12_Witness ==
    /\ SessionDone /\ MetadataDone /\ CarriesStatus
    /\ probe.status = EXPECTATION_FAILED
    /\ probe.session.exc.kind = "RemoteOSError"
    /\ probe.metadata.exc = probe.session.exc

\* the body carries errno=2, strerror and filename
CarriesOsError ==
    /\ probe.body.valid
    /\ {"errno", "strerror", "filename"} \subseteq Keys(probe.body.members)
    /\ BodyData(probe.body)["errno"] = 2
IsOsError2(exc) == exc.kind = "RemoteOSError" /\ exc.errno = 2

\* C13: a status-500 response whose body carries errno=2, strerror, filename
\* and the status 417 raises RemoteOSError with errno 2 from the handshake and
\* from a metadata call.
C13_OsErrorOnHandshakeAndMetadata ==
    (/\ probe.stage = "response"
     /\ probe.status = INTERNAL_SERVER_ERROR
     /\ CarriesOsError
     /\ BodyStatus(probe.body) = EXPECTATION_FAILED) =>
        /\ HandshakeDone => IsOsError2(probe.handshake.exc)
        /\ MetadataDone => IsOsError2(probe.metadata.exc)

\* the body is not JSON, or a JSON object with no member besides the status
EmptyOrMalformed ==
    \/ ~probe.body.valid
    \/ /\ Keys(probe.body.members) \subseteq {"status"}
       /\ BodyStatus(probe.body) \in {None, INTERNAL_SERVER_ERROR}
DefaultError == RemoteFileServicesError("UnknownError", "Unknown error", URL, <<>>)

\* C14: a status-500 response with an empty or malformed body raises
\* RemoteFileServicesError("UnknownError", "Unknown error", []) and no other
\* exception, from a metadata call and from a session operation alike.
C14_DefaultsOnEmptyBody ==
    (/\ probe.stage = "response"
     /\ probe.status = INTERNAL_SERVER_ERROR
     /\ EmptyOrMalformed) =>
        /\ MetadataDone => probe.metadata.exc = DefaultError
        /\ SessionDone => probe.session.exc = DefaultError

MetaCompleted(c) == meta[c].pc = "idle" /\ meta[c].op # "none"

\* C15: every metadata operation issues exactly one outbound call; a 500 or
\* 417 response is raised as a structured error built from its body, any other
\* status from 400 up as the transport's own error, and on success the JSON
\* body is returned unchanged.
C15_MetadataOperations ==
    \A c \in MetaCallers :
        /\ meta[c].calls = meta[c].started
        /\ MetaCompleted(c) =>
              LET m == meta[c]
                  data == IF m.body.valid THEN BodyData(m.body) ELSE <<>>
              IN  IF m.status = EXPECTATION_FAILED
                  THEN m.exc.kind = "RemoteOSError"
                  ELSE IF m.status = INTERNAL_SERVER_ERROR
                  THEN m.exc = RemoteFileServicesError(
                                   Get(data, "type", "UnknownError"),
                                   Get(data, "message", "Unknown error"),
                                   MetaURL,
                                   Get(data, "tracebacks", <<>>))
                  ELSE IF m.status >= 400
                  THEN m.exc = ClientResponseError(m.status)
                  ELSE m.body.valid =>
                          m.exc = NoExc /\ m.value = BodyData(m.body)

Success(value) == [exc |-> NoExc, value |-> value]
\* the session decoder ran on a response whose status is at most 400
SessionSucceeded ==
    /\ SessionDone
    /\ BodyStatus(probe.body) # None
    /\ BodyStatus(probe.body) <= 400

\* C16: on success the result follows the shape of data: absent or null gives
\* None, a list gives the list of its elements each decoded by _decode_data,
\* in order, and any other value gives that value decoded; where _decode_data
\* raises on the value or on an element, that exception leaves _get_response.
C16_ResultFollowsData ==
    SessionSucceeded =>
        LET message == BodyData(probe.body)
            data == IF "data" \in DOMAIN message THEN message["data"] ELSE NoValue
            out == probe.session
            Dec(d) == decode_data(d, mode, encoding)
        IN  IF data = NoValue THEN out = Success(NoValue)
            ELSE IF data.py = "list"
            THEN IF \A i \in 1..Len(data.v) : Dec(data.v[i]).py # "error"
                 THEN /\ out.exc = NoExc
                      /\ out.value.py = "list"
                      /\ Len(out.value.v) = Len(data.v)
                      /\ \A i \in 1..Len(data.v) : out.value.v[i] = Dec(data.v[i])
                 ELSE \E i \in 1..Len(data.v) :
                          /\ Dec(data.v[i]).py = "error"
                          /\ out.exc.kind = Dec(data.v[i]).v
            ELSE IF Dec(data).py = "error"
                 THEN out.exc.kind = Dec(data).v
                 ELSE out = Success(Dec(data))

\* a three-element list came back from a text-mode handle with its two texts
\* decoded and its number untouched
C16_Witness ==
    /\ SessionSucceeded
    /\ ~HasB(mode)
    /\ Get(BodyData(probe.body), "data", NoValue) = PyList(<<Wire_hi, PyInt(3), Wire_hi>>)
    /\ probe.session =
          Success(PyList(<<PyStr(<<104, 105>>), PyInt(3), PyStr(<<104, 105>>)>>))

Encoded == probe.stage \in {"encoded", "decoded"}
Decoded == probe.stage = "decoded"

\* C17: binary round trip: on a handle whose mode contains "b", decoding the
\* encoding of a bytes value gives back that bytes value.
C17_BinaryRoundTrip ==
    (Decoded /\ probe.payload.py = "bytes" /\ HasB(mode)) =>
        probe.back = probe.payload

\* three bytes, none of them ASCII text, came back from a binary handle
C17_Witness ==
    /\ Decoded /\ HasB(mode)
    /\ probe.payload = PyBytes(<<255, 233, 255>>)
    /\ probe.wire = PyStr(<<47, 43, 110, 47>>)
    /\ probe.back = probe.payload

\* C18: text round trip: on a text-mode handle with encoding e, decoding the
\* encoding of a text that e can encode gives back that text.
C18_TextRoundTrip ==
    (Decoded /\ probe.payload.py = "str" /\ ~HasB(mode)) =>
        /\ str_encode(probe.payload.v, encoding).py = "bytes"
        /\ probe.back = probe.payload

\* a text with a non-ASCII character came back from a Latin-1 text handle and
\* its wire form is not the UTF-8 one
C18_Witness ==
    /\ Decoded /\ ~HasB(mode) /\ encoding = "latin-1"
    /\ probe.payload = PyStr(<<104, 233>>)
    /\ probe.wire = Wire_hE9
    /\ probe.back = probe.payload

\* the payloads other than the one encoded that _encode_data maps to the
\* same wire value
SameWire ==
    {q \in CodecPayloads : q # probe.payload /\ encode_data(q, encoding) = probe.wire}
\* the handle's mode is the one the payload's type calls for
ModeMatchesPayload ==
    \/ probe.payload.py = "bytes" /\ HasB(mode)
    \/ probe.payload.py = "str" /\ ~HasB(mode)
    \/ probe.payload.py \notin {"bytes", "str"}

\* C19 as stated: _encode_data is injective over all payloads, and decoding
\* returns the original payload with its original type whatever the mode.
C19_CodecBijection ==
    (Encoded /\ probe.wire.py # "error") =>
        /\ SameWire = {}
        /\ Decoded => probe.back = probe.payload

\* C19 amended: _encode_data is injective among bytes payloads, among text
\* payloads of one encoding and among pass-through values; the only payloads
\* sharing a wire value are a bytes value and the text that encodes to those
\* bytes; and decoding returns the original payload exactly when the handle's
\* mode matches the payload's type.
C19_BijectionPerType ==
    (Encoded /\ probe.wire.py # "error") =>
        /\ \A q \in SameWire :
              /\ {q.py, probe.payload.py} = {"bytes", "str"}
              /\ \A b \in {q, probe.payload}, t \in {q, probe.payload} :
                    (b.py = "bytes" /\ t.py = "str") =>
                        str_encode(t.v, encoding) = b
        /\ Decoded => (probe.back = probe.payload <=> ModeMatchesPayload)

\* a bytes value came back from a binary handle although a text shares its
\* wire value
C19_Witness ==
    /\ Decoded /\ HasB(mode) /\ encoding = "latin-1"
    /\ probe.payload = PyBytes(<<104, 233>>)
    /\ PyStr(<<104, 233>>) \in SameWire
    /\ probe.back = probe.payload

PassThroughPayload == probe.payload.py \notin {"bytes", "str"}
Received == probe.stage = "received"
HasTextElement(v) == v.py = "list" /\ \E i \in 1..Len(v.v) : v.v[i].py = "str"

\* C20 as stated: a value that is neither text nor bytes is returned unchanged
\* by _encode_data and by _decode_data, and reaches the caller unchanged when
\* received as the data of a response.
C20_PassThrough ==
    PassThroughPayload =>
        /\ Encoded => probe.wire = probe.payload
        /\ Decoded => probe.back = probe.payload
        /\ Received => probe.received = Success(probe.payload)

\* C20 amended: a value that is neither text nor bytes is returned unchanged
\* by _encode_data and by _decode_data, and reaches the caller unchanged when
\* received as the data of a response, unless it is a list with text
\* elements: each text element of a list is decoded, its other elements are
\* unchanged.
C20_PassThroughExceptListTexts ==
    PassThroughPayload =>
        /\ Encoded => probe.wire = probe.payload
        /\ Decoded => probe.back = probe.payload
        /\ Received =>
              IF HasTextElement(probe.payload)
              THEN LET p == probe.payload.v
                       r == probe.received
                   IN  /\ r.exc = NoExc
                       /\ r.value.py = "list"
                       /\ Len(r.value.v) = Len(p)
                       /\ \A i \in 1..Len(p) :
                             r.value.v[i] =
                                 IF p[i].py = "str"
                                 THEN decode_data(p[i], mode, encoding)
                                 ELSE p[i]
                       /\ r # Success(probe.payload)
              ELSE probe.received = Success(probe.payload)

\* a JSON object whose member is a text reached the caller unchanged
C20_Witness ==
    /\ Received
    /\ probe.payload = PyDict([name |-> Wire_hi])
    /\ probe.received = Success(probe.payload)

\* ------------------------------------------------------------------- C27
\* the response at the head of the queue task t is waiting on
AwaitedFrame(t) == Head(inbox[cur[t].ws])
\* the step in which _get_response of task t consumes a frame
ConsumesResponse(t) ==
    /\ t \in tasks /\ pc[t] = "receive_bytes" /\ pc'[t] = "idle"
    /\ nRecv' = nRecv + 1
\* the step in which a file operation of task t sends its request
SendsRequest(t) == t \in tasks /\ pc[t] = "idle" /\ pc'[t] = "receive_bytes"
\* the last file operation of task t ended with the error of an error response
EndedWithErrorResponse(t) ==
    /\ IsFileOp(result[t])
    /\ result[t].outcome = "raise"
    /\ result[t].exc.kind \in {"RemoteOSError", "RemoteFileServicesError"}

\* C27: an error response (status above 400) is raised and leaves the session
\* open with the same connection; the next operation sends its request on that
\* connection, and the response it consumes is the one to its own request.
C27_ErrorResponseKeepsSession ==
    [][\A t \in AllTasks :
         /\ (ConsumesResponse(t) /\ BodyStatus(AwaitedFrame(t).body) > 400) =>
               /\ result'[t].outcome = "raise"
               /\ websocket' = websocket
               /\ wsState' = wsState
               /\ closeDone' = closeDone
               /\ nWs' = nWs
               /\ pending'[websocket] = <<>>
               /\ inbox'[websocket] = <<>>
         /\ (SendsRequest(t) /\ EndedWithErrorResponse(t)) =>
               /\ cur'[t].ws = websocket
               /\ nSent' = nSent + 1
               /\ Len(pending'[websocket]) = 1
         /\ (ConsumesResponse(t) /\ EndedWithErrorResponse(t)) =>
               /\ nRecv' = nSent
               /\ result'[t].for = t]_vars

\* after an error response the next operation has sent its request and its
\* response is queued
C27_Witness ==
    /\ EndedWithErrorResponse(1)
    /\ pc[1] = "receive_bytes"
    /\ nSent = 2 /\ nRecv = 1
    /\ wsState[websocket] = "open"
    /\ Len(inbox[websocket]) = 1

\* ------------------------------------------------------------------- C28
\* the step in which a connect() call returns normally
ConnectReturns == nConnectOk' = nConnectOk + 1
\* the current websocket has delivered a status frame that _check_connection
\* accepted
HandshakeAccepted ==
    /\ websocket # None
    /\ wsStatus[websocket] >= 1
    /\ hsFrame # NoFrame
    /\ check_connection(hsFrame).exc = NoExc

\* C28: under every interleaving of two connect() calls on one unopened handle
\* (no handshake failed, no close() made) at most one transport connection is
\* established, and whenever a connect() returns normally the status frame has
\* been received and accepted.
C28_OneConnectionAcceptedHandshake ==
    [][(nFail' = 0 /\ ~closeDone') =>
          /\ nWs' <= 1
          /\ ConnectReturns => HandshakeAccepted']_vars

\* ------------------------------------------------------------------- C22
\* the step in which readinto() of task t ends
ReadintoEnds(t) == result'[t] # result[t] /\ result'[t].op = "readinto"
\* the states of a handle
Unopened == websocket = None /\ \A t \in tasks : pc[t] = "idle"
Connecting == \E t \in tasks : pc[t] \in {"ws_connect", "receive_status"}
Open == websocket # None /\ wsState[websocket] = "open" /\ ~Connecting
Closed == websocket # None /\ wsState[websocket] = "closed" /\ ~Connecting

\* C22: readinto() raises NotImplementedError in every handle state, sends no
\* request frame, consumes no response frame and leaves the handle as it was.
C22_ReadintoUnsupported ==
    [][\A t \in AllTasks :
         ReadintoEnds(t) =>
            /\ result'[t] = Raised("readinto", NotImplementedError, 0)
            /\ UNCHANGED <<pending, inbox, nSent, nRecv, wsStatus, hsFrame>>
            /\ UNCHANGED <<websocket, wsState, nWs, superClosed, closeDone,
                           mode, encoding, handle, pc, cur>>
            /\ (Unopened' <=> Unopened) /\ (Connecting' <=> Connecting)
            /\ (Open' <=> Open) /\ (Closed' <=> Closed)]_vars

\* readinto() has raised while the other task's connect() is suspended
C22_Witness ==
    /\ result[2] = Raised("readinto", NotImplementedError, 0)
    /\ pc[1] = "receive_status"
    /\ Connecting

\* ------------------------------------------------------------------- C21
\* the calls made on the handle were write(b), seek(0), read() and have ended
WroteSoughtRead(b) ==
    /\ file.calls = <<[op |-> "write", arg |-> b],
                      [op |-> "seek", arg |-> PyInt(0)],
                      [op |-> "read", arg |-> WholeFile]>>
    /\ pc[1] = "idle"

\* C21: on a binary-mode handle, against the mock server, write(b); seek(0);
\* read() returns exactly b, for every bytes payload b.
C21_WriteSeekRead ==
    \A b \in FilePayloads :
        (HasB(mode) /\ WroteSoughtRead(b)) => result[1] = Returned("read", b, 1)

\* a payload with a newline and a byte that is not UTF-8 has come back
C21_Witness ==
    /\ HasB(mode)
    /\ WroteSoughtRead(PyBytes(<<104, 10, 233, 255>>))
    /\ result[1] = Returned("read", PyBytes(<<104, 10, 233, 255>>), 1)

\* ------------------------------------------------------------------- C23
RECURSIVE ReadlineResult(_, _, _)
\* what the k-th of repeated readline() calls returns on a file read from pos
ReadlineResult(content, pos, k) ==
    IF k = 1
    THEN (IF HasB(mode) THEN PyBytes(LineFrom(content, pos))
          ELSE bytes_decode(LineFrom(content, pos), encoding))
    ELSE ReadlineResult(content, pos + Len(LineFrom(content, pos)), k - 1)
\* the number of the first of the first n readline() calls that returns an
\* empty result, 0 where none does
FirstEmpty(content, n) ==
    IF \E k \in 1..n : ~Truthy(ReadlineResult(content, 0, k))
    THEN CHOOSE k \in 1..n :
            /\ ~Truthy(ReadlineResult(content, 0, k))
            /\ \A j \in 1..(k - 1) : Truthy(ReadlineResult(content, 0, j))
    ELSE 0
ReadlinesDone == Len(file.calls)

\* the iteration driven in way d yields the results of repeated readline()
\* calls up to, not including, the first empty one, with one readline request
\* per step and none after the first empty result, and ends without error
IterationFollowsReadline(d) ==
    file.driver = d =>
        /\ nSent = ReadlinesDone
        /\ file.iter # "raised"
        /\ file.iter = "suspended" =>
              /\ Len(file.yielded) = ReadlinesDone
              /\ FirstEmpty(file.content, ReadlinesDone) = 0
        /\ file.iter = "returned" =>
              /\ Len(file.yielded) = ReadlinesDone - 1
              /\ FirstEmpty(file.content, ReadlinesDone) = ReadlinesDone
              /\ result[1].outcome = "ok"
        /\ \A k \in 1..Len(file.yielded) :
              file.yielded[k] = ReadlineResult(file.content, 0, k)

\* explicit readline() calls return the lines of the file one after the other
ReadlineFollowsFile ==
    (file.driver = "readline" /\ pc[1] = "idle" /\ ReadlinesDone >= 1) =>
        result[1] = Returned("readline",
                             ReadlineResult(file.content, 0, ReadlinesDone), 1)

\* C23: iterating an Open handle with `async for` yields exactly the results
\* that repeated readline() calls return up to, not including, the first empty
\* one, with one readline request per step, none after the first empty
\* result, and ends without error.
C23_IterationIsRepeatedReadline ==
    ReadlineFollowsFile /\ IterationFollowsReadline("async for")

\* ------------------------------------------------------------------- C29
\* __next__ has ended
NextEnded == file.driver = "__next__" /\ pc[1] = "idle" /\ result[1].op = "__next__"

\* C29: one __next__ step performs exactly one readline request, returns its
\* result when that is non-empty, and on an empty result ends the iteration
\* with StopIteration, not with an error.
C29_NextStep ==
    /\ file.driver = "__next__" =>
          /\ nSent = ReadlinesDone
          /\ pc[1] = "idle" => nRecv = nSent
    /\ NextEnded =>
          LET line == ReadlineResult(file.content, 0, ReadlinesDone)
          IN  IF Truthy(line)
              THEN result[1] = Returned("__next__", line, 1)
              ELSE result[1] = Raised("__next__", StopIteration, 1)

\* ------------------------------------------------------------------- C24
\* what connect() of task t ends with once _check_connection has seen frame
HandshakeOutcome(t, frame) ==
    IF check_connection(frame).exc = NoExc
    THEN Returned(cur[t].op, NoValue, 0)
    ELSE Raised(cur[t].op, check_connection(frame).exc, 0)
\* the step in which the metadata call of caller c ends
MetaEnds(c) == meta[c].pc = "request" /\ meta'[c].pc = "idle"

\* C24: no error is retried or swallowed. A connect() call makes one
\* ws_connect attempt; where ws_connect or the handshake fails it raises the
\* exception it caught, unchanged, without another attempt. A file operation
\* whose response is an error raises it and sends nothing more, and a metadata
\* operation whose response is an error raises after its one request.
C24_NoRetryNoSwallow ==
    [][/\ \A t \in AllTasks :
            /\ (pc[t] # "ws_connect" /\ pc'[t] = "ws_connect") =>
                  pc[t] = "idle" /\ ncalls' = ncalls + 1
            /\ (pc[t] = "ws_connect" /\ pc'[t] = "idle") =>
                  /\ result'[t] = Raised(cur[t].op, TransportError("ws_connect"), 0)
                  /\ nWs' = nWs
            /\ (pc[t] = "receive_status" /\ pc'[t] # "receive_status") =>
                  /\ pc'[t] = "idle"
                  /\ nWs' = nWs
                  /\ result'[t] = IF wsStatus' # wsStatus
                                  THEN HandshakeOutcome(t, hsFrame')
                                  ELSE Raised(cur[t].op, TransportError("receive"), 0)
            /\ (ConsumesResponse(t) /\ BodyStatus(AwaitedFrame(t).body) > 400) =>
                  /\ result'[t] = Raised(cur[t].op,
                                         get_response_outcome(AwaitedFrame(t).body).exc, t)
                  /\ nSent' = nSent
                  /\ pending' = pending
       /\ \A c \in MetaCallers :
            (MetaEnds(c) /\ meta'[c].status >= 400) =>
                  /\ meta'[c].exc # NoExc
                  /\ meta'[c].calls = meta[c].calls
                  /\ meta'[c].calls = meta'[c].started]_vars

\* a handshake has failed on the first connection, the second connect() made
\* one more, a file operation has raised the error of its response and a
\* metadata call has raised after its one request
C24_Witness ==
    /\ nFail = 1 /\ nWs = 2
    /\ EndedWithErrorResponse(1) /\ nSent = 1 /\ nRecv = 1
    /\ \E c \in MetaCallers :
          meta[c].pc = "idle" /\ meta[c].exc # NoExc /\ meta[c].calls = 1

\* ------------------------------------------------------------------- C25
\* the outcome of a metadata call, from its own response
MetaOutcome(status, body) ==
    LET hook == session_response_hook(status, body)
        parsed == json_loads(body)
    IN  [exc |-> IF hook.exc # NoExc THEN hook.exc
                 ELSE IF parsed.ok THEN NoExc ELSE JSONDecodeError,
         value |-> IF hook.exc = NoExc /\ parsed.ok THEN parsed.obj ELSE <<>>]

\* C25: metadata operations are independent of file sessions and of each
\* other: a step of a metadata call changes nothing of the handle (connection
\* reference, mode, encoding) and consumes no session frame, a step of the
\* file session changes no metadata call, and the result of each call is the
\* one its own response gives, whatever the other caller received.
C25_MetadataIndependent ==
    [][/\ meta' # meta => UNCHANGED sessionVars
       /\ sessionVars' # sessionVars => meta' = meta
       /\ \A c \in MetaCallers :
            /\ meta'[c] # meta[c] => \A d \in MetaCallers \ {c} : meta'[d] = meta[d]
            /\ MetaEnds(c) =>
                  /\ meta'[c].exc = MetaOutcome(meta'[c].status, meta'[c].body).exc
                  /\ meta'[c].value = MetaOutcome(meta'[c].status, meta'[c].body).value]_vars

\* both callers have ended a metadata call with different outcomes while an
\* operation of the file session awaits its response
C25_Witness ==
    /\ pc[1] = "receive_bytes"
    /\ Len(inbox[websocket]) = 1
    /\ meta[3].pc = "idle" /\ meta[3].status = 200 /\ meta[3].exc = NoExc
    /\ meta[4].pc = "idle" /\ meta[4].status = INTERNAL_SERVER_ERROR
    /\ meta[4].exc.kind = "RemoteFileServicesError"

\* ------------------------------------------------------------------- C26
\* the step in which the wait of task t for a response times out
TimesOut(t) ==
    /\ t \in tasks /\ pc[t] = "receive_bytes" /\ pc'[t] = "idle"
    /\ result'[t].exc = TimeoutError
\* requests sent whose response no operation has consumed
Outstanding == nSent - nRecv
\* the frames of the session still under way
Queued == SumTo([w \in WsIds |-> Len(pending[w]) + Len(inbox[w])], MaxWs)

\* C26: a timeout while waiting for a response aborts only the wait: the
\* handle keeps its websocket, the transport stays open and the request is
\* not withdrawn, so its response stays queued and the next operation that
\* waits consumes it.
C26_TimeoutAbortsOnlyTheWait ==
    [][/\ \A t \in AllTasks :
            /\ TimesOut(t) =>
                  /\ result'[t] = Raised(cur[t].op, TimeoutError, 0)
                  /\ UNCHANGED <<websocket, wsState, nWs, superClosed, closeDone,
                                 mode, encoding, handle>>
                  /\ UNCHANGED <<pending, inbox, nSent, nRecv>>
            /\ (ConsumesResponse(t) /\ Outstanding >= 2) =>
                  /\ inbox'[cur[t].ws] = Tail(inbox[cur[t].ws])
                  /\ Outstanding' >= 1
       /\ Queued' = Outstanding']_vars

\* after a timeout the next operation has consumed the response to the
\* request of the operation that timed out; the response to its own request
\* is still under way
C26_Witness ==
    /\ pc[1] = "idle"
    /\ IsFileOp(result[1]) /\ result[1].outcome = "ok"
    /\ nSent = 2 /\ nRecv = 1
    /\ wsState[websocket] = "open"
    /\ Queued = 1

\* ------------------------------------------------------------------- C30
\* add_path has run on a directory of user_paths and the answer was Yes
MovedExisting ==
    /\ pm.stage = "built"
    /\ pm.last.op = "add_path"
    /\ pm.last.known
    /\ pm.last.answer = "Yes"
    /\ pm.last.raised = "none"

\* C30: add_path with a directory that is already in the user paths, answered
\* Yes, places the path on the first row of the user-paths section (row
\* editable_top_row), whatever sections the dialog has, and makes it the
\* current row.
C30_ExistingPathMovesToTop ==
    MovedExisting =>
        /\ pm.current = editable_top_row(pm)
        /\ ItemAt(pm.rows, pm.current) = PathItem(pm.last.directory, TRUE)
        /\ SectionOf(pm.rows, pm.current + 1) = "user"
        /\ ItemAt(pm.rows, pm.current - 1) = HeaderItem("user")

\* the rows that display a user path: path items that are neither a project
\* path nor a system path of the dialog
UserPathRows ==
    {r \in 0..(Len(pm.rows) - 1) :
        /\ ItemAt(pm.rows, r).header = "none"
        /\ ItemAt(pm.rows, r).text \notin DictKeys(pm.project_paths)
        /\ ItemAt(pm.rows, r).text \notin DictKeys(pm.system_paths)}
UserHeaderRows ==
    {r \in 0..(Len(pm.rows) - 1) : ItemAt(pm.rows, r) = HeaderItem("user")}
RemovedUserPath ==
    /\ pm.last.op = "remove_path"
    /\ pm.last.asked
    /\ pm.last.section = "user"
    /\ pm.last.item.header = "none"

\* C31: every remove_path(force=True) of a user-path row succeeds (the row
\* leaves the list, nothing is raised), and at all times the "User paths"
\* header is in the list exactly when at least one user-path row is displayed.
C31_UserHeaderIffUserPaths ==
    /\ RemovedUserPath => pm.last.raised = "none"
    /\ (UserHeaderRows # {}) <=> (UserPathRows # {})

MovedUserPath ==
    /\ pm.last.op = "move_to"
    /\ pm.last.item.header = "none"
    /\ pm.last.section = "user"

\* C33: every move_to call (absolute 0 or 1, relative -1 or +1) made with the
\* current row on a user path leaves the moved item on a row within
\* [editable_top_row, editable_bottom_row], under the user header, and leaves
\* every header on the row it had.
C33_MoveKeepsSections ==
    MovedUserPath =>
        /\ pm.current >= editable_top_row(pm)
        /\ pm.current <= editable_bottom_row(pm)
        /\ ItemAt(pm.rows, pm.current) = pm.last.item
        /\ SectionOf(pm.rows, pm.current + 1) = "user"
        /\ HeaderRows(pm.rows) = pm.last.headers

CurrentItem == ItemAt(pm.rows, pm.current)
CurrentSection == SectionOf(pm.rows, pm.current + 1)
OnUserPath == pm.current >= 0 /\ CurrentItem.header = "none" /\ CurrentSection = "user"
OnFirstUserPath == OnUserPath /\ ItemAt(pm.rows, pm.current - 1).header = "user"
OnLastUserPath ==
    /\ OnUserPath
    /\ pm.current + 1 < Len(pm.rows) => ItemAt(pm.rows, pm.current + 1).header # "none"
OnFixedRow ==
    /\ pm.current >= 0
    /\ CurrentItem.header # "none" \/ CurrentSection \in {"project", "system"}

\* C32: after refresh, whatever the list layout and the current row: the
\* four move buttons are disabled on a header, a project path and a system
\* path; move-up and move-to-top are disabled on the first user-path row;
\* move-down and move-to-bottom are disabled on the last user-path row; the
\* remove button is enabled only on a user-path row.
C32_ButtonsFollowSections ==
    /\ OnFixedRow => /\ ~pm.buttons.movetop /\ ~pm.buttons.moveup
                     /\ ~pm.buttons.movedown /\ ~pm.buttons.movebottom
    /\ OnFirstUserPath => ~pm.buttons.moveup /\ ~pm.buttons.movetop
    /\ OnLastUserPath => ~pm.buttons.movedown /\ ~pm.buttons.movebottom
    /\ pm.buttons.remove => OnUserPath

====
